---------------------------- MODULE Spec2Model ----------------------------
(***************************************************************************)
(* Query planning and translation engine of the Dynamic-Dashboard          *)
(* backends: relation graph, path resolver, the two join planners          *)
(* (tabular and document), the tabular filter translator, the document     *)
(* value coercion and the /query handlers of both servers.                 *)
(***************************************************************************)
EXTENDS Integers, Sequences, FiniteSets, TLC

VARIABLES
  root,        \* buildJoinPlan: the root entity
  refs,        \* buildJoinPlan: the field references (filters)
  sqlDone,     \* the tabular planner has run on (root, refs)
  sqlPlan,     \* its outcome [threw, joins]
  mongoDone,   \* the document planner has run on (root, refs)
  mongoPlan,   \* its outcome [threw, joins]
  pathFor,     \* index of the reference findPath was last called for (0: none)
  path,        \* what findPath(root, refs[pathFor].collection) returned
  fIn,         \* buildSQLFilter: the filter object
  fDone,       \* buildSQLFilter has run on fIn
  fOut,        \* its result {whereClause, params}
  cIn,         \* coercion: the filter value
  cParses,     \* coercion: whether the engine's Date accepts a non-ISO text
  cOp,         \* coercion: the comparison operator applied ("none": not yet)
  cOut,        \* coercion: the condition STANDARD_OPERATORS[cOp](cIn)
  qBackend,    \* /query: the server that received the request ("sql", "mongo")
  qReq,        \* /query: the request body {database, filters, aggregation}
  qPc,         \* /query: where the handler stands (the await it is suspended at)
  qMatchCalls, \* /query: the filter lists given to buildMatch, in call order
  qSqlCalls,   \* /query: the objects given to buildSQLFilter with what it returned
  qQueries,    \* /query: the statements / pipelines handed to the database driver
  qDetailed,   \* /query: detailedData ("none" before it is assigned)
  qAggIdx,     \* /query: index of the aggregation executeAggregations is waiting for
  qAggResults, \* /query: the results executeAggregations has pushed
  qResp,       \* /query: the response sent (status 0: none yet)
  qDriverErrors, \* /query: the errors the database driver raised, in order [at, message]
  eData,       \* enhancer: the rows given to enhanceResultsWithJoinedFields
  ePc,         \* enhancer: "start", "lookup" (suspended at findOne) or "done"
  eRow,        \* enhancer: index of the record the loop stands at
  eKey,        \* enhancer: index of the id field whose lookup is awaited
  eRecord,     \* enhancer: enhancedRecord, the copy under decoration
  eRecords,    \* enhancer: enhancedRecords, the rows pushed so far
  eLookups,    \* enhancer: the outcomes of the lookups made, in order
  eResult,     \* enhancer: the value returned ("none" before the return)
  mIn,         \* buildMatch: the filter list
  mDone,       \* buildMatch has run on mIn
  mOut,        \* its outcome [error, match]
  gClient,     \* getDB: the module-level client (0: undefined, else the client's number)
  gClients,    \* getDB: the MongoClients created, each [state, connects]
  gCalls       \* getDB: the calls made, in order of their start

planVars == <<root, refs, sqlDone, sqlPlan, mongoDone, mongoPlan, pathFor, path>>

filterVars == <<fIn, fDone, fOut>>

coerceVars == <<cIn, cParses, cOp, cOut>>

queryVars ==
  <<qBackend, qReq, qPc, qMatchCalls, qSqlCalls, qQueries, qDetailed, qAggIdx, qAggResults, qResp,
    qDriverErrors>>

enhanceVars == <<eData, ePc, eRow, eKey, eRecord, eRecords, eLookups, eResult>>

matchVars == <<mIn, mDone, mOut>>

connVars == <<gClient, gClients, gCalls>>

vars == <<planVars, filterVars, coerceVars, queryVars, enhanceVars, matchVars, connVars>>

(***************************************************************************)
(* Bounds of the model.                                                    *)
(***************************************************************************)
MaxRefs == 3

\* children of one $and / $or group
MaxGroup == 2

\* nesting depth of $and / $or groups
MaxNest == 2

\* characters appended to a string stem
MaxSuffix == 2

(***************************************************************************)
(* RelationGraph (relations.js).                                           *)
(***************************************************************************)
RELATIONS ==
  << [from |-> "customers",  to |-> "invoices", local |-> "_id", foreign |-> "customer_id"],
     [from |-> "products",   to |-> "invoices", local |-> "_id", foreign |-> "product_id"],
     [from |-> "categories", to |-> "products", local |-> "_id", foreign |-> "category_id"],
     [from |-> "categories", to |-> "invoices", local |-> "_id", foreign |-> "category_id"] >>

\* the entities the relation graph knows
GraphEntities ==
  {RELATIONS[i].from : i \in DOMAIN RELATIONS} \cup {RELATIONS[i].to : i \in DOMAIN RELATIONS}

\* an entity name no relation mentions
UnknownEntity == "suppliers"

Entities == GraphEntities \cup {UnknownEntity}

(***************************************************************************)
(* PathResolver (pathResolver.js): breadth-first search over the           *)
(* undirected relation graph, neighbours in the order of RELATIONS.        *)
(***************************************************************************)
NotFound == <<>>

\* the entities one relation away from node, in RELATIONS order
Neighbors(node) ==
  LET F[i \in 0..Len(RELATIONS)] ==
        IF i = 0 THEN <<>>
        ELSE LET r == RELATIONS[i] IN
             IF r.from = node THEN Append(F[i-1], r.to)
             ELSE IF r.to = node THEN Append(F[i-1], r.from)
             ELSE F[i-1]
  IN F[Len(RELATIONS)]

\* the paths to enqueue for the not yet visited neighbours ns of the path p
RECURSIVE Extend(_, _, _)
Extend(p, ns, visited) ==
  IF ns = <<>> THEN [paths |-> <<>>, visited |-> visited]
  ELSE IF Head(ns) \in visited THEN Extend(p, Tail(ns), visited)
  ELSE LET rest == Extend(p, Tail(ns), visited \cup {Head(ns)}) IN
       [paths |-> <<Append(p, Head(ns))>> \o rest.paths, visited |-> rest.visited]

RECURSIVE bfs(_, _, _)
bfs(queue, visited, endEntity) ==
  IF queue = <<>> THEN NotFound
  ELSE LET p == Head(queue)
           node == p[Len(p)]
       IN IF node = endEntity THEN p
          ELSE LET ext == Extend(p, Neighbors(node), visited) IN
               bfs(Tail(queue) \o ext.paths, ext.visited, endEntity)

\* depth-first variant: follows the first unvisited neighbour, backtracking
RECURSIVE dfsPath(_, _)
RECURSIVE tryNeighbors(_, _, _)
dfsPath(p, endEntity) ==
  IF p[Len(p)] = endEntity THEN p
  ELSE tryNeighbors(p, Neighbors(p[Len(p)]), endEntity)

tryNeighbors(p, ns, endEntity) ==
  IF ns = <<>> THEN NotFound
  ELSE IF Head(ns) \in {p[i] : i \in DOMAIN p} THEN tryNeighbors(p, Tail(ns), endEntity)
  ELSE LET r == dfsPath(Append(p, Head(ns)), endEntity) IN
       IF r # NotFound THEN r ELSE tryNeighbors(p, Tail(ns), endEntity)

findPathDepthFirst(startEntity, endEntity) ==
  dfsPath(<<startEntity>>, endEntity)

findPath(startEntity, endEntity) ==
  bfs(<< <<startEntity>> >>, {startEntity}, endEntity)

(***************************************************************************)
(* JoinPlanner (joinPlanner.js of both backends).                          *)
(***************************************************************************)
\* RELATIONS.find(r => ...): index of the first relation between a and b, 0 when
\* there is none (find returns undefined)
RelFind(a, b) ==
  LET S == {i \in DOMAIN RELATIONS :
              \/ (RELATIONS[i].from = a /\ RELATIONS[i].to = b)
              \/ (RELATIONS[i].from = b /\ RELATIONS[i].to = a)}
  IN IF S = {} THEN 0 ELSE CHOOSE i \in S : \A j \in S : i <= j

\* the inner loop: one step per consecutive pair (a, b) of the path
PathSteps(p) ==
  IF Len(p) <= 1 THEN <<>>
  ELSE [i \in 1..(Len(p) - 1) |-> [a |-> p[i], b |-> p[i + 1], rel |-> RelFind(p[i], p[i + 1])]]

\* variant without the "if (!path) continue" guard: reading length of a missing path throws
FilterStepsNoPathCheck(r, f) ==
  IF f.collection = r THEN [threw |-> FALSE, steps |-> <<>>]
  ELSE LET p == findPath(r, f.collection) IN
       IF p = NotFound THEN [threw |-> TRUE, steps |-> <<>>]
       ELSE LET s == PathSteps(p) IN
            [threw |-> \E i \in DOMAIN s : s[i].rel = 0, steps |-> s]

\* one iteration of "for (const f of filters)": the steps it walks; rel.from of a
\* relation that find did not return throws
FilterSteps(r, f) ==
  IF f.collection = r THEN [threw |-> FALSE, steps |-> <<>>]
  ELSE LET p == findPath(r, f.collection) IN
       IF p = NotFound THEN [threw |-> FALSE, steps |-> <<>>]
       ELSE LET s == PathSteps(p) IN
            [threw |-> \E i \in DOMAIN s : s[i].rel = 0, steps |-> s]

\* the whole outer loop, in path-discovery order
RECURSIVE JoinSteps(_, _)
JoinSteps(r, filters) ==
  IF filters = <<>> THEN [threw |-> FALSE, steps |-> <<>>]
  ELSE LET h == FilterSteps(r, Head(filters)) IN
       IF h.threw THEN [threw |-> TRUE, steps |-> <<>>]
       ELSE LET t == JoinSteps(r, Tail(filters)) IN
            IF t.threw THEN t ELSE [threw |-> FALSE, steps |-> h.steps \o t.steps]

\* `${a}.${key}`: entity and field names hold no dot, so the pair stands for the string
Qualified(entity, key) == <<entity, key>>

\* the object the tabular planner pushes for a step
sqlJoin(st) ==
  LET rel == RELATIONS[st.rel] IN
  [from |-> Qualified(st.a, IF rel.from = st.a THEN rel.local ELSE rel.foreign),
   to   |-> Qualified(st.b, IF rel.from = st.a THEN rel.foreign ELSE rel.local),
   type |-> "INNER"]

\* variant that always takes local for localField and foreign for foreignField
mongoJoinAsDeclared(st) ==
  LET rel == RELATIONS[st.rel] IN
  [from |-> st.b, localField |-> rel.local, foreignField |-> rel.foreign, as |-> st.b]

\* the object the document planner pushes for a step
mongoJoin(st) ==
  LET rel == RELATIONS[st.rel] IN
  [from         |-> st.b,
   localField   |-> IF rel.from = st.a THEN rel.local ELSE rel.foreign,
   foreignField |-> IF rel.from = st.a THEN rel.foreign ELSE rel.local,
   as           |-> st.b]

\* j.name in a template literal: a property the object lacks prints as undefined
Prop(j, name) == IF name \in DOMAIN j THEN j[name] ELSE "undefined"

\* keyFn of both planners: `${j.from}:${j.localField}:${j.foreignField}`
joinKey(j) == <<Prop(j, "from"), Prop(j, "localField"), Prop(j, "foreignField")>>

\* variant whose filter keeps the last element of every key instead of the first
RECURSIVE dedupeFromKeepLast(_, _, _)
dedupeFromKeepLast(arr, i, seen) ==
  IF i > Len(arr) THEN <<>>
  ELSE LET k == joinKey(arr[i]) IN
       IF \E j \in (i + 1)..Len(arr) : joinKey(arr[j]) = k
       THEN dedupeFromKeepLast(arr, i + 1, seen)
       ELSE <<i>> \o dedupeFromKeepLast(arr, i + 1, seen \cup {k})

\* dedupe: the indices arr.filter keeps, with the seen set
RECURSIVE dedupeFrom(_, _, _)
dedupeFrom(arr, i, seen) ==
  IF i > Len(arr) THEN <<>>
  ELSE LET k == joinKey(arr[i]) IN
       IF k \in seen THEN dedupeFrom(arr, i + 1, seen)
       ELSE <<i>> \o dedupeFrom(arr, i + 1, seen \cup {k})

dedupe(arr) ==
  LET kept == dedupeFrom(arr, 1, {}) IN [n \in DOMAIN kept |-> arr[kept[n]]]

buildJoinPlanSQL(r, filters) ==
  LET w == JoinSteps(r, filters) IN
  IF w.threw THEN [threw |-> TRUE, joins |-> <<>>]
  ELSE [threw |-> FALSE, joins |-> dedupe([i \in DOMAIN w.steps |-> sqlJoin(w.steps[i])])]

buildJoinPlanMongo(r, filters) ==
  LET w == JoinSteps(r, filters) IN
  IF w.threw THEN [threw |-> TRUE, joins |-> <<>>]
  ELSE [threw |-> FALSE, joins |-> dedupe([i \in DOMAIN w.steps |-> mongoJoin(w.steps[i])])]

(***************************************************************************)
(* The planners applied to every root and reference list.                  *)
(***************************************************************************)
SeqsUpTo(S, n) == UNION {[1..k -> S] : k \in 0..n}

FieldNames == {"f", "g"}

NoPlan == [threw |-> FALSE, joins |-> <<>>]

InitPlanVars ==
  /\ root \in Entities
  /\ refs \in SeqsUpTo([collection : Entities, field : {"f"}], MaxRefs)
  /\ sqlDone = FALSE /\ sqlPlan = NoPlan
  /\ mongoDone = FALSE /\ mongoPlan = NoPlan
  /\ pathFor = 0 /\ path = NotFound

IdlePlan ==
  /\ root = "invoices"
  /\ refs = <<>>
  /\ sqlDone = FALSE /\ sqlPlan = NoPlan
  /\ mongoDone = FALSE /\ mongoPlan = NoPlan
  /\ pathFor = 0 /\ path = NotFound

BuildSQL ==
  /\ ~sqlDone
  /\ sqlDone' = TRUE
  /\ sqlPlan' = buildJoinPlanSQL(root, refs)
  /\ UNCHANGED <<root, refs, mongoDone, mongoPlan, pathFor, path>>
  /\ UNCHANGED <<filterVars, coerceVars, queryVars, enhanceVars, matchVars, connVars>>

BuildMongo ==
  /\ ~mongoDone
  /\ mongoDone' = TRUE
  /\ mongoPlan' = buildJoinPlanMongo(root, refs)
  /\ UNCHANGED <<root, refs, sqlDone, sqlPlan, pathFor, path>>
  /\ UNCHANGED <<filterVars, coerceVars, queryVars, enhanceVars, matchVars, connVars>>

FindPath(i) ==
  /\ pathFor = 0
  /\ pathFor' = i
  /\ path' = findPath(root, refs[i].collection)
  /\ UNCHANGED <<root, refs, sqlDone, sqlPlan, mongoDone, mongoPlan>>
  /\ UNCHANGED <<filterVars, coerceVars, queryVars, enhanceVars, matchVars, connVars>>

(***************************************************************************)
(* Reference notions for the planner claims.                               *)
(***************************************************************************)
Adjacent(a, b) ==
  \E i \in DOMAIN RELATIONS :
    \/ (RELATIONS[i].from = a /\ RELATIONS[i].to = b)
    \/ (RELATIONS[i].from = b /\ RELATIONS[i].to = a)

\* the entities at most k relations away from s
RECURSIVE ReachWithin(_, _)
ReachWithin(s, k) ==
  IF k = 0 THEN {s}
  ELSE LET R == ReachWithin(s, k - 1) IN
       R \cup {e \in Entities : \E x \in R : Adjacent(x, e)}

Connected(s, e) == e \in ReachWithin(s, Cardinality(Entities))

\* brute-force shortest distance in the undirected graph
Dist(s, e) ==
  CHOOSE k \in 0..Cardinality(Entities) :
    /\ e \in ReachWithin(s, k)
    /\ \A m \in 0..(k - 1) : e \notin ReachWithin(s, m)

\* a reference the planner cannot reach from the root
Unreachable(r, f) == f.collection # r /\ ~Connected(r, f.collection)

\* the conceptual edge of a walked step: (from-entity, to-entity, from key, to key)
Sig(st) ==
  LET rel == RELATIONS[st.rel] IN
  <<st.a, st.b,
    IF rel.from = st.a THEN rel.local ELSE rel.foreign,
    IF rel.from = st.a THEN rel.foreign ELSE rel.local>>

WalkedSigs == LET w == JoinSteps(root, refs).steps IN {Sig(w[i]) : i \in DOMAIN w}

WalkedPairs == {<<sg[1], sg[2]>> : sg \in WalkedSigs}

sqlSig(j) == <<j.from[1], j.to[1], j.from[2], j.to[2]>>

\* C1: buildJoinPlan removes an edge only when an earlier edge has the same
\* (from-entity, to-entity, local key, foreign key); edges that differ in any of
\* the four components are all kept, in both planners.
C1_DedupeByFullSignature ==
  /\ sqlDone =>
       /\ Len(sqlPlan.joins) = Cardinality(WalkedSigs)
       /\ {sqlSig(sqlPlan.joins[n]) : n \in DOMAIN sqlPlan.joins} = WalkedSigs
  /\ mongoDone => Len(mongoPlan.joins) = Cardinality(WalkedSigs)

\* the document planner alone keeps one edge per distinct signature
C1_MongoKeepsDistinctEdges ==
  mongoDone => Len(mongoPlan.joins) = Cardinality(WalkedSigs)

\* the references one may add: to an entity already referenced, any field
DuplicateRefs ==
  {[collection |-> refs[i].collection, field |-> fl] : i \in DOMAIN refs, fl \in FieldNames}

\* the list with d inserted after position k
InsertAfter(k, d) == SubSeq(refs, 1, k) \o <<d>> \o SubSeq(refs, k + 1, Len(refs))

\* positions after which a further reference to d's entity may be added
AfterFirst(d) ==
  {k \in DOMAIN refs : \E i \in 1..k : refs[i].collection = d.collection}

SqlIdempotent ==
  sqlDone => \A d \in DuplicateRefs : \A k \in AfterFirst(d) :
               buildJoinPlanSQL(root, InsertAfter(k, d)) = sqlPlan

MongoIdempotent ==
  mongoDone => \A d \in DuplicateRefs : \A k \in AfterFirst(d) :
                 buildJoinPlanMongo(root, InsertAfter(k, d)) = mongoPlan

SqlOneEdgePerPair ==
  sqlDone => \A pr \in WalkedPairs :
    Cardinality({n \in DOMAIN sqlPlan.joins :
                   sqlPlan.joins[n].from[1] = pr[1] /\ sqlPlan.joins[n].to[1] = pr[2]}) = 1

MongoOneEdgePerPair ==
  mongoDone => \A pr \in WalkedPairs :
    Cardinality({n \in DOMAIN mongoPlan.joins : mongoPlan.joins[n].from = pr[2]}) = 1

\* C2: adding further references to an entity already referenced leaves the join
\* list exactly as it was, and the plan holds exactly one edge per joined pair.
C2_IdempotentOneEdgePerPair ==
  /\ SqlIdempotent /\ MongoIdempotent
  /\ SqlOneEdgePerPair /\ MongoOneEdgePerPair

\* C3: for connected entities findPath returns a path from start to end over
\* configured relations whose edge count is the true shortest distance.
C3_FindPathShortest ==
  pathFor # 0 =>
    LET s == root
        e == refs[pathFor].collection
    IN Connected(s, e) =>
         /\ path # NotFound
         /\ path[1] = s
         /\ path[Len(path)] = e
         /\ \A i \in 1..(Len(path) - 1) : Adjacent(path[i], path[i + 1])
         /\ Len(path) - 1 = Dist(s, e)

C3_Witness ==
  /\ pathFor # 0
  /\ Len(path) = 3
  /\ path[2] = "invoices"

\* the references that can contribute edges
ReachableRefs == SelectSeq(refs, LAMBDA f : ~Unreachable(root, f))

\* C4: a reference with no path from the root makes buildJoinPlan neither fail
\* nor change: the plan is the one of the list without the unreachable references.
C4_UnreachableSkipped ==
  /\ sqlDone => ~sqlPlan.threw /\ sqlPlan = buildJoinPlanSQL(root, ReachableRefs)
  /\ mongoDone => ~mongoPlan.threw /\ mongoPlan = buildJoinPlanMongo(root, ReachableRefs)

C4_Witness ==
  /\ sqlDone /\ mongoDone
  /\ \E i \in DOMAIN refs : Unreachable(root, refs[i]) /\ refs[i].collection = UnknownEntity
  /\ Len(refs) > Len(ReachableRefs)
  /\ Len(sqlPlan.joins) >= 2
  /\ Len(mongoPlan.joins) >= 2

\* the key a relation declares for the entity e it connects
DeclaredKey(rel, e) == IF rel.from = e THEN rel.local ELSE rel.foreign

\* the referenced entities a plan has to reach
ToCover == {refs[i].collection : i \in {k \in DOMAIN refs : refs[k].collection # root /\ Connected(root, refs[k].collection)}}

\* the walked steps the document planner's dedupe keeps, in order
MongoKeptSteps ==
  LET w == JoinSteps(root, refs).steps
      kept == dedupeFrom([i \in DOMAIN w |-> mongoJoin(w[i])], 1, {})
  IN [n \in DOMAIN kept |-> w[kept[n]]]

SqlCovers == sqlDone => ToCover \subseteq {sqlPlan.joins[n].to[1] : n \in DOMAIN sqlPlan.joins}

SqlChained ==
  sqlDone => \A n \in DOMAIN sqlPlan.joins :
    \/ sqlPlan.joins[n].from[1] = root
    \/ \E m \in 1..(n - 1) : sqlPlan.joins[m].to[1] = sqlPlan.joins[n].from[1]

MongoCovers == mongoDone => ToCover \subseteq {mongoPlan.joins[n].from : n \in DOMAIN mongoPlan.joins}

MongoChained ==
  mongoDone =>
    /\ Len(MongoKeptSteps) = Len(mongoPlan.joins)
    /\ \A n \in DOMAIN MongoKeptSteps :
         /\ MongoKeptSteps[n].b = mongoPlan.joins[n].from
         /\ \/ MongoKeptSteps[n].a = root
            \/ \E m \in 1..(n - 1) : mongoPlan.joins[m].from = MongoKeptSteps[n].a

\* C19: every referenced entity other than the root and reachable from it is the
\* to-entity of some edge of the plan, and the from-entity of every edge is the
\* root or the to-entity of an earlier edge, in both planners.
C19_CoverageAndChain == SqlCovers /\ SqlChained /\ MongoCovers /\ MongoChained

\* the document planner alone covers and chains
C19_DocumentPlannerCoversAndChains == MongoCovers /\ MongoChained

\* C20: in both planners every edge of the plan comes from a walked pair (a, b),
\* a nearer the root, and carries on a's side the key the relation declares for a
\* and on b's side the key it declares for b, whichever side the relation calls from.
C20_EdgesOrientedAlongPath ==
  LET w == JoinSteps(root, refs).steps
      sqlSides == {<<Qualified(w[i].a, DeclaredKey(RELATIONS[w[i].rel], w[i].a)),
                     Qualified(w[i].b, DeclaredKey(RELATIONS[w[i].rel], w[i].b))>> : i \in DOMAIN w}
      kept == MongoKeptSteps
  IN
  /\ sqlDone =>
       /\ w # <<>> => sqlPlan.joins # <<>>
       /\ \A n \in DOMAIN sqlPlan.joins : <<sqlPlan.joins[n].from, sqlPlan.joins[n].to>> \in sqlSides
  /\ mongoDone =>
       /\ Len(mongoPlan.joins) = Len(kept)
       /\ \A n \in DOMAIN mongoPlan.joins :
            /\ mongoPlan.joins[n].from = kept[n].b
            /\ mongoPlan.joins[n].localField = DeclaredKey(RELATIONS[kept[n].rel], kept[n].a)
            /\ mongoPlan.joins[n].foreignField = DeclaredKey(RELATIONS[kept[n].rel], kept[n].b)

\* a path walked along one relation's declared direction and against another's
C20_Witness ==
  /\ sqlDone /\ mongoDone
  /\ root = "customers"
  /\ Len(mongoPlan.joins) = 2
  /\ mongoPlan.joins[1].localField = "_id" /\ mongoPlan.joins[1].foreignField = "customer_id"
  /\ mongoPlan.joins[2].localField = "product_id" /\ mongoPlan.joins[2].foreignField = "_id"
  /\ sqlPlan.joins[2].from = Qualified("invoices", "product_id")
  /\ sqlPlan.joins[2].to = Qualified("products", "_id")

\* the elements of arr at their first occurrence, in order
FirstSeen(arr) ==
  LET first == {i \in DOMAIN arr : \A j \in 1..(i - 1) : arr[j] # arr[i]}
      Nth(n) == CHOOSE i \in first : Cardinality({j \in first : j < i}) = n - 1
  IN [n \in 1..Cardinality(first) |-> arr[Nth(n)]]

\* s can be read off t from left to right, skipping elements of t
RECURSIVE IsSubsequence(_, _)
IsSubsequence(s, t) ==
  IF s = <<>> THEN TRUE
  ELSE IF t = <<>> THEN FALSE
  ELSE IF Head(s) = Head(t) THEN IsSubsequence(Tail(s), Tail(t))
  ELSE IsSubsequence(s, Tail(t))

\* C21: the edges buildJoinPlan returns are a subsequence of the edges in
\* path-discovery order, and of several equal edges the one returned stands at
\* the place of the first occurrence, in both planners.
C21_FirstSeenOrderKept ==
  LET w == JoinSteps(root, refs).steps IN
  /\ sqlDone => IsSubsequence(sqlPlan.joins, FirstSeen([i \in DOMAIN w |-> sqlJoin(w[i])]))
  /\ mongoDone => IsSubsequence(mongoPlan.joins, FirstSeen([i \in DOMAIN w |-> mongoJoin(w[i])]))

\* an edge discovered first and third, another one in between
C21_Witness ==
  LET w == JoinSteps(root, refs).steps IN
  /\ sqlDone /\ mongoDone
  /\ Len(w) = 3 /\ w[1] = w[3] /\ w[2] # w[1]
  /\ Len(mongoPlan.joins) = 2 /\ Len(sqlPlan.joins) = 2
  /\ mongoPlan.joins[1] = mongoJoin(w[1])
  /\ mongoPlan.joins[2] = mongoJoin(w[2])

(***************************************************************************)
(* JavaScript values as the translators see them.  An object is the        *)
(* sequence of its entries in insertion order (Object.entries); a string   *)
(* is the sequence of its characters, or the one-element sequence of its   *)
(* text where the characters are of no interest.                           *)
(***************************************************************************)
Scalar(x) == [t |-> "scalar", x |-> x]
Str(s) == [t |-> "str", s |-> s]
Null == [t |-> "null"]
Arr(items) == [t |-> "array", items |-> items]
Obj(entries) == [t |-> "obj", e |-> entries]
Entry(key, value) == [k |-> key, v |-> value]

(***************************************************************************)
(* FilterTranslator, tabular backend (filterBuilderSQL.js).                *)
(* SQL text is the sequence of its tokens.                                 *)
(***************************************************************************)
SQL_OPERATORS ==
  ("$eq" :> "=") @@ ("$ne" :> "!=") @@ ("$gt" :> ">") @@ ("$gte" :> ">=") @@
  ("$lt" :> "<") @@ ("$lte" :> "<=") @@ ("$in" :> "IN") @@ ("$nin" :> "NOT IN") @@
  ("$regex" :> "LIKE") @@ ("$exists" :> "IS NOT NULL") @@ ("$notexists" :> "IS NULL") @@
  ("$and" :> "AND") @@ ("$or" :> "OR") @@ ("$not" :> "NOT")

\* key.startsWith('$') for the keys the model uses
StartsWithDollar(key) == key \in DOMAIN SQL_OPERATORS \cup {"$contains", "$startsWith", "$endsWith", "$between"}

\* arr.join(sep) on token sequences
RECURSIVE JoinWith(_, _)
JoinWith(parts, sep) ==
  IF parts = <<>> THEN <<>>
  ELSE IF Len(parts) = 1 THEN parts[1]
  ELSE parts[1] \o <<sep>> \o JoinWith(Tail(parts), sep)

\* opValue.map(() => '?').join(', ')
Placeholders(n) == JoinWith([i \in 1..n |-> <<"?">>], ",")

\* opValue.replace(/\.\*/g, '%').replace(/\*/g, '%') on a character sequence
RECURSIVE ReplaceDotStar(_)
ReplaceDotStar(cs) ==
  IF cs = <<>> THEN <<>>
  ELSE IF Len(cs) >= 2 /\ cs[1] = "." /\ cs[2] = "*" THEN <<"%">> \o ReplaceDotStar(SubSeq(cs, 3, Len(cs)))
  ELSE <<cs[1]>> \o ReplaceDotStar(Tail(cs))

LikePattern(cs) == LET d == ReplaceDotStar(cs) IN [i \in DOMAIN d |-> IF d[i] = "*" THEN "%" ELSE d[i]]

NoConds == [conds |-> <<>>, params |-> <<>>]

\* params.unshift(...more): the new parameters in front
UnshiftParams(params, more) == more \o params

\* params.push(...more)
PushParams(params, more) == params \o more

\* the body of "for (const [op, opValue] of Object.entries(value))"
OpCondition(column, op, opValue) ==
  IF op \notin DOMAIN SQL_OPERATORS THEN NoConds
  ELSE IF op \in {"$in", "$nin"} THEN
         IF opValue.t = "array"
         THEN [conds |-> << <<column, SQL_OPERATORS[op], "(">> \o Placeholders(Len(opValue.items)) \o <<")">> >>,
               params |-> opValue.items]
         ELSE NoConds
  ELSE IF op = "$regex" THEN
         IF opValue.t = "str"
         THEN [conds |-> << <<column, "LIKE", "?">> >>, params |-> <<Str(LikePattern(opValue.s))>>]
         ELSE NoConds
  ELSE [conds |-> << <<column, SQL_OPERATORS[op], "?">> >>, params |-> <<opValue>>]

RECURSIVE OpConditions(_, _)
OpConditions(column, entries) ==
  IF entries = <<>> THEN NoConds
  ELSE LET h == OpCondition(column, Head(entries).k, Head(entries).v)
           t == OpConditions(column, Tail(entries))
       IN [conds |-> h.conds \o t.conds, params |-> PushParams(h.params, t.params)]

buildCondition(key, value) ==
  IF value.t = "null" THEN NoConds
  ELSE IF value.t = "obj" THEN OpConditions(key, value.e)
  ELSE [conds |-> << <<key, "=", "?">> >>, params |-> <<value>>]

RECURSIVE buildSQLFilter(_)
RECURSIVE GroupConds(_)
RECURSIVE FilterEntries(_)

\* value.forEach(cond => ...) of a $and / $or group: the parenthesised
\* sub-clauses (each is the child's whole whereClause) and their parameters
GroupConds(items) ==
  IF items = <<>> THEN NoConds
  ELSE LET sub == buildSQLFilter(Head(items))
           t == GroupConds(Tail(items))
       IN IF sub.whereClause # <<>>
          THEN [conds |-> << <<"(">> \o sub.whereClause \o <<")">> >> \o t.conds,
                params |-> PushParams(sub.params, t.params)]
          ELSE t

\* one iteration of "for (const [key, value] of Object.entries(filter))"
FilterEntry(key, value) ==
  IF StartsWithDollar(key) THEN
    IF key = "$and" /\ value.t = "array" THEN
      LET g == GroupConds(value.items) IN
      [conds |-> IF g.conds = <<>> THEN <<>> ELSE <<JoinWith(g.conds, "AND")>>, params |-> g.params]
    ELSE IF key = "$or" /\ value.t = "array" THEN
      LET g == GroupConds(value.items) IN
      [conds |-> IF g.conds = <<>> THEN <<>> ELSE <<JoinWith(g.conds, "OR")>>, params |-> g.params]
    ELSE NoConds
  ELSE buildCondition(key, value)

FilterEntries(entries) ==
  IF entries = <<>> THEN NoConds
  ELSE LET h == FilterEntry(Head(entries).k, Head(entries).v)
           t == FilterEntries(Tail(entries))
       IN [conds |-> h.conds \o t.conds, params |-> PushParams(h.params, t.params)]

\* a missing filter, or one without keys (Object.keys of a number, boolean or {}),
\* gives the empty clause
buildSQLFilter(filter) ==
  IF filter.t # "obj" \/ filter.e = <<>> THEN [whereClause |-> <<>>, params |-> <<>>]
  ELSE LET acc == FilterEntries(filter.e) IN
       [whereClause |-> IF acc.conds = <<>> THEN <<>> ELSE <<"WHERE">> \o JoinWith(acc.conds, "AND"),
        params |-> acc.params]

(***************************************************************************)
(* buildSQLFilter applied to a family of filter objects.                   *)
(***************************************************************************)
Fields == {"a", "b"}

\* values a field condition may carry
LeafValues ==
  { Scalar(1), Scalar(2), Null, Arr(<<Scalar(1), Scalar(2)>>),
    Obj(<<Entry("$gt", Scalar(1))>>),
    Obj(<<Entry("$gte", Scalar(1)), Entry("$lte", Scalar(2))>>),
    Obj(<<Entry("$in", Arr(<<Scalar(1), Scalar(2)>>))>>),
    Obj(<<Entry("$nin", Arr(<<Scalar(2)>>))>>),
    Obj(<<Entry("$in", Arr(<<>>))>>),
    Obj(<<Entry("$in", Scalar(1))>>),
    Obj(<<Entry("$contains", Scalar(1)), Entry("$ne", Scalar(2))>>),
    Obj(<<Entry("$regex", Str(<<"x", ".", "*", "y", "*">>))>>),
    Obj(<<Entry("$exists", Scalar(1))>>) }

\* objects of field conditions only, one entry per field, in either key order
LeafObjs ==
  {Obj(<<Entry(f, v)>>) : f \in Fields, v \in LeafValues}
  \cup {Obj(<<Entry(fg[1], v), Entry(fg[2], w)>>) :
          fg \in {x \in Fields \X Fields : x[1] # x[2]}, v \in LeafValues, w \in LeafValues}

\* the field conditions used inside groups
AtomEntries ==
  { Entry("a", Scalar(1)), Entry("b", Scalar(2)), Entry("b", Scalar(3)),
    Entry("a", Obj(<<Entry("$in", Arr(<<Scalar(2), Scalar(3)>>))>>)) }

AtomObjs == {Obj(<<e>>) : e \in AtomEntries}

GroupKeys == {"$and", "$or"}

\* children of a group nested d deep: atoms, at most one of them a nested group
\* standing alone, first or last beside one atom
RECURSIVE GroupObjs(_)
Kids(d) ==
  UNION {[1..k -> AtomObjs] : k \in 1..MaxGroup}
  \cup (IF d <= 1 THEN {}
        ELSE LET sub == GroupObjs(d - 1) IN
             {<<g>> : g \in sub}
             \cup {<<x, g>> : x \in AtomObjs, g \in sub}
             \cup {<<g, x>> : x \in AtomObjs, g \in sub})

GroupObjs(d) ==
  IF d = 0 THEN {}
  ELSE {Obj(<<Entry(key, Arr(c))>>) : key \in GroupKeys, c \in Kids(d)}

\* a group beside a field condition, or beside the other group, at one level
SiblingObjs ==
  LET G == GroupObjs(1) IN
  {Obj(<<e, g.e[1]>>) : e \in AtomEntries, g \in G}
  \cup {Obj(<<g.e[1], e>>) : e \in AtomEntries, g \in G}
  \cup {Obj(<<gh[1].e[1], gh[2].e[1]>>) : gh \in {x \in G \X G : x[1].e[1].k # x[2].e[1].k}}

FilterInputs == {Obj(<<>>)} \cup LeafObjs \cup GroupObjs(MaxNest) \cup SiblingObjs

NoFilterResult == [whereClause |-> <<>>, params |-> <<>>]

InitFilterVars ==
  /\ fIn \in FilterInputs
  /\ fDone = FALSE
  /\ fOut = NoFilterResult

IdleFilter ==
  /\ fIn = Obj(<<>>)
  /\ fDone = FALSE
  /\ fOut = NoFilterResult

BuildFilter ==
  /\ ~fDone
  /\ fDone' = TRUE
  /\ fOut' = buildSQLFilter(fIn)
  /\ UNCHANGED fIn
  /\ UNCHANGED <<planVars, coerceVars, queryVars, enhanceVars, matchVars, connVars>>

(***************************************************************************)
(* Reference notions for the translator claims.                            *)
(***************************************************************************)
CondOps == {"=", "!=", ">", ">=", "<", "<=", "IN", "NOT IN", "LIKE", "IS NOT NULL", "IS NULL", "NOT"}

\* positions of the placeholders of a clause, left to right
PlaceholderPositions(ts) ==
  SelectSeq([i \in DOMAIN ts |-> i], LAMBDA i : ts[i] = "?")

\* the condition a placeholder stands in: the nearest operator token before it
\* and the column before that
OwnerOp(ts, p) == CHOOSE q \in 1..(p - 1) : ts[q] \in CondOps /\ \A m \in (q + 1)..(p - 1) : ts[m] \notin CondOps

\* (column, operator, bound value) of every placeholder, pairing the n-th
\* placeholder with the n-th parameter
Bindings(out) ==
  LET pos == PlaceholderPositions(out.whereClause) IN
  [n \in DOMAIN pos |->
     LET q == OwnerOp(out.whereClause, pos[n]) IN
     <<out.whereClause[q - 1], out.whereClause[q], out.params[n]>>]

\* what each value-carrying condition of a filter tree binds, in traversal order
ExpectedOp(column, op, v) ==
  IF op \notin DOMAIN SQL_OPERATORS THEN <<>>
  ELSE IF op \in {"$in", "$nin"} THEN
         IF v.t = "array" THEN [i \in DOMAIN v.items |-> <<column, SQL_OPERATORS[op], v.items[i]>>] ELSE <<>>
  ELSE IF op = "$regex" THEN
         IF v.t = "str" THEN << <<column, "LIKE", Str(LikePattern(v.s))>> >> ELSE <<>>
  ELSE << <<column, SQL_OPERATORS[op], v>> >>

RECURSIVE ExpectedOps(_, _)
ExpectedOps(column, entries) ==
  IF entries = <<>> THEN <<>>
  ELSE ExpectedOp(column, Head(entries).k, Head(entries).v) \o ExpectedOps(column, Tail(entries))

RECURSIVE ExpectedBindings(_)
RECURSIVE ExpectedKids(_)
RECURSIVE ExpectedEntries(_)
ExpectedKids(items) ==
  IF items = <<>> THEN <<>> ELSE ExpectedBindings(Head(items)) \o ExpectedKids(Tail(items))

ExpectedEntries(entries) ==
  IF entries = <<>> THEN <<>>
  ELSE LET key == Head(entries).k
           value == Head(entries).v
           here == IF key \in GroupKeys THEN (IF value.t = "array" THEN ExpectedKids(value.items) ELSE <<>>)
                   ELSE IF StartsWithDollar(key) \/ value.t = "null" THEN <<>>
                   ELSE IF value.t = "obj" THEN ExpectedOps(key, value.e)
                   ELSE << <<key, "=", value>> >>
       IN here \o ExpectedEntries(Tail(entries))

ExpectedBindings(filter) == IF filter.t = "obj" THEN ExpectedEntries(filter.e) ELSE <<>>

\* C7: the placeholders of the whereClause are as many as the params, and the
\* i-th placeholder from the left stands in the condition whose value is params[i].
C7_PlaceholdersMatchParams ==
  fDone =>
    /\ Len(PlaceholderPositions(fOut.whereClause)) = Len(fOut.params)
    /\ Bindings(fOut) = ExpectedBindings(fIn)

C7_Witness ==
  /\ fDone
  /\ fIn.e # <<>>
  /\ fIn.e[1].k = "$and"
  /\ Len(fIn.e[1].v.items) = 2
  /\ fIn.e[1].v.items[1].e[1].k = "$or"
  /\ Len(fOut.params) >= 4
  /\ fOut.params[1] # fOut.params[2]

\* rows the predicates are evaluated on
Rows == [Fields -> 1..3]

Compare(x, op, y) ==
  CASE op = "=" -> x = y
    [] op = "!=" -> x # y
    [] op = ">" -> x > y
    [] op = ">=" -> x >= y
    [] op = "<" -> x < y
    [] op = "<=" -> x <= y

\* the truth of a filter tree on a row: an object is the conjunction of its
\* entries, $and the conjunction and $or the disjunction of its children
RECURSIVE TreeTruth(_, _)
OpTruth(x, op, v) ==
  IF op \in {"$in", "$nin"} THEN (op = "$in") = (\E i \in DOMAIN v.items : v.items[i].x = x)
  ELSE Compare(x, SQL_OPERATORS[op], v.x)

EntryTruth(en, row) ==
  IF en.k = "$and" THEN \A i \in DOMAIN en.v.items : TreeTruth(en.v.items[i], row)
  ELSE IF en.k = "$or" THEN \E i \in DOMAIN en.v.items : TreeTruth(en.v.items[i], row)
  ELSE IF en.v.t = "obj" THEN \A i \in DOMAIN en.v.e : OpTruth(row[en.k], en.v.e[i].k, en.v.e[i].v)
  ELSE row[en.k] = en.v.x

TreeTruth(filter, row) == \A i \in DOMAIN filter.e : EntryTruth(filter.e[i], row)

\* the trees the composition claim speaks of: scalar and comparison / membership
\* field conditions and non-empty groups of non-empty trees
RECURSIVE IsTree(_)
IsTreeEntry(en) ==
  IF en.k \in GroupKeys
  THEN en.v.t = "array" /\ en.v.items # <<>> /\ \A i \in DOMAIN en.v.items : IsTree(en.v.items[i])
  ELSE /\ en.k \in Fields
       /\ \/ en.v.t = "scalar"
          \/ /\ en.v.t = "obj"
             /\ en.v.e # <<>>
             /\ \A i \in DOMAIN en.v.e :
                  \/ en.v.e[i].k \in {"$eq", "$ne", "$gt", "$gte", "$lt", "$lte"} /\ en.v.e[i].v.t = "scalar"
                  \/ en.v.e[i].k \in {"$in", "$nin"} /\ en.v.e[i].v.t = "array" /\ en.v.e[i].v.items # <<>>

IsTree(filter) == filter.t = "obj" /\ filter.e # <<>> /\ \A i \in DOMAIN filter.e : IsTreeEntry(filter.e[i])

HasGroup(filter) == \E i \in DOMAIN filter.e : filter.e[i].k \in GroupKeys

(***************************************************************************)
(* The truth of a WHERE clause on a row, as the database reads it: OR      *)
(* binds weaker than AND, parentheses group, placeholders take the         *)
(* parameters in order.  A result is [ok, val, p, q]: whether the text     *)
(* parsed, its value, the next token and the next parameter.               *)
(***************************************************************************)
ParseFail == [ok |-> FALSE, val |-> FALSE, p |-> 0, q |-> 0]

\* ?, ?, ... ) from position p: the number of placeholders, 0 when malformed
RECURSIVE ListLen(_, _)
ListLen(ts, p) ==
  IF p + 1 > Len(ts) \/ ts[p] # "?" THEN 0
  ELSE IF ts[p + 1] = ")" THEN 1
  ELSE IF ts[p + 1] = "," THEN (LET n == ListLen(ts, p + 2) IN IF n = 0 THEN 0 ELSE n + 1)
  ELSE 0

ParseCond(c, p, q) ==
  IF p + 2 > Len(c.ts) \/ c.ts[p] \notin Fields THEN ParseFail
  ELSE IF c.ts[p + 1] \in {"=", "!=", ">", ">=", "<", "<="} THEN
         IF c.ts[p + 2] = "?" /\ q <= Len(c.ps) /\ c.ps[q].t = "scalar"
         THEN [ok |-> TRUE, val |-> Compare(c.row[c.ts[p]], c.ts[p + 1], c.ps[q].x), p |-> p + 3, q |-> q + 1]
         ELSE ParseFail
  ELSE IF c.ts[p + 1] \in {"IN", "NOT IN"} /\ c.ts[p + 2] = "(" THEN
         LET n == ListLen(c.ts, p + 3) IN
         IF n = 0 \/ q + n - 1 > Len(c.ps) \/ \E i \in q..(q + n - 1) : c.ps[i].t # "scalar" THEN ParseFail
         ELSE [ok |-> TRUE,
               val |-> (c.ts[p + 1] = "IN") = (\E i \in q..(q + n - 1) : c.ps[i].x = c.row[c.ts[p]]),
               p |-> p + 3 + 2 * n, q |-> q + n]
  ELSE ParseFail

RECURSIVE ParseExpr(_, _, _)
RECURSIVE ParseTerm(_, _, _)
RECURSIVE ParseFactor(_, _, _)

\* factor := ( expr ) | condition; with c.lenient a WHERE right after ( is skipped
ParseFactor(c, p, q) ==
  IF p > Len(c.ts) THEN ParseFail
  ELSE IF c.ts[p] = "(" THEN
         LET p1 == IF c.lenient /\ p + 1 <= Len(c.ts) /\ c.ts[p + 1] = "WHERE" THEN p + 2 ELSE p + 1
             r == ParseExpr(c, p1, q)
         IN IF r.ok /\ r.p <= Len(c.ts) /\ c.ts[r.p] = ")" THEN [r EXCEPT !.p = r.p + 1] ELSE ParseFail
  ELSE ParseCond(c, p, q)

\* term := factor (AND factor)*
ParseTerm(c, p, q) ==
  LET f == ParseFactor(c, p, q) IN
  IF ~f.ok THEN ParseFail
  ELSE IF f.p <= Len(c.ts) /\ c.ts[f.p] = "AND" THEN
         LET r == ParseTerm(c, f.p + 1, f.q) IN
         IF r.ok THEN [r EXCEPT !.val = f.val /\ r.val] ELSE ParseFail
  ELSE f

\* expr := term (OR term)*
ParseExpr(c, p, q) ==
  LET t == ParseTerm(c, p, q) IN
  IF ~t.ok THEN ParseFail
  ELSE IF t.p <= Len(c.ts) /\ c.ts[t.p] = "OR" THEN
         LET r == ParseExpr(c, t.p + 1, t.q) IN
         IF r.ok THEN [r EXCEPT !.val = t.val \/ r.val] ELSE ParseFail
  ELSE t

\* "true" / "false" for the rows the clause selects or not, "error" when the
\* database rejects the text; no clause selects every row
SqlTruth(out, row, lenient) ==
  IF out.whereClause = <<>> THEN "true"
  ELSE LET c == [ts |-> out.whereClause, ps |-> out.params, row |-> row, lenient |-> lenient]
           r == ParseExpr(c, 2, 1)
       IN IF out.whereClause[1] = "WHERE" /\ r.ok /\ r.p = Len(c.ts) + 1 /\ r.q = Len(c.ps) + 1
          THEN (IF r.val THEN "true" ELSE "false")
          ELSE "error"

TruthName(b) == IF b THEN "true" ELSE "false"

\* C8: for every filter tree of field conditions and nested $and/$or groups the
\* predicate buildSQLFilter produces has, on every row, the truth value of the
\* tree.  The clause is read with AND binding tighter than OR, and a
\* parenthesised child clause "( WHERE c )" is read as "( c )".
C8_CompositionPreservesTruth ==
  (fDone /\ IsTree(fIn)) =>
    \A row \in Rows : SqlTruth(fOut, row, TRUE) = TruthName(TreeTruth(fIn, row))

\* the same for the text as emitted, where a WHERE inside parentheses is a syntax error
C8_EmittedTextPreservesTruth ==
  (fDone /\ IsTree(fIn)) =>
    \A row \in Rows : SqlTruth(fOut, row, FALSE) = TruthName(TreeTruth(fIn, row))

\* trees without groups are translated faithfully
C8_LeafTreesFaithful ==
  (fDone /\ IsTree(fIn) /\ ~HasGroup(fIn)) =>
    \A row \in Rows : SqlTruth(fOut, row, FALSE) = TruthName(TreeTruth(fIn, row))

(***************************************************************************)
(* Document-backend value coercion (operators.js).  A string is the        *)
(* sequence of its characters.                                             *)
(***************************************************************************)
Digits == {"0", "1", "2", "3", "4", "5", "6", "7", "8", "9"}

HexChars == Digits \cup {"a", "b", "c", "d", "e", "f", "A", "B", "C", "D", "E", "F"}

DigitVal(c) ==
  CASE c = "0" -> 0 [] c = "1" -> 1 [] c = "2" -> 2 [] c = "3" -> 3 [] c = "4" -> 4
    [] c = "5" -> 5 [] c = "6" -> 6 [] c = "7" -> 7 [] c = "8" -> 8 [] c = "9" -> 9

\* /^[0-9a-fA-F]{24}$/
ObjectIdLen == 24

IsObjectIdShape(cs) == Len(cs) = ObjectIdLen /\ \A i \in DOMAIN cs : cs[i] \in HexChars

\* v.trim()
RECURSIVE TrimLeft(_)
TrimLeft(cs) == IF cs # <<>> /\ Head(cs) = " " THEN TrimLeft(Tail(cs)) ELSE cs

RECURSIVE TrimRight(_)
TrimRight(cs) ==
  IF cs # <<>> /\ cs[Len(cs)] = " " THEN TrimRight(SubSeq(cs, 1, Len(cs) - 1)) ELSE cs

Trim(cs) == TrimRight(TrimLeft(cs))

\* the number of consecutive decimal digits of cs from position p on
RECURSIVE DigitsRun(_, _)
DigitsRun(cs, p) ==
  IF p <= Len(cs) /\ cs[p] \in Digits THEN 1 + DigitsRun(cs, p + 1) ELSE 0

\* StrDecimalLiteral: [+-] (Infinity | digits [. digits] [exp] | . digits [exp])
IsDecimalLiteral(cs) ==
  LET p0 == IF cs # <<>> /\ cs[1] \in {"+", "-"} THEN 2 ELSE 1
      n1 == DigitsRun(cs, p0)
      p1 == p0 + n1
      dot == p1 <= Len(cs) /\ cs[p1] = "."
      n2 == IF dot THEN DigitsRun(cs, p1 + 1) ELSE 0
      p2 == IF dot THEN p1 + 1 + n2 ELSE p1
      p3 == IF p2 + 1 <= Len(cs) /\ cs[p2 + 1] \in {"+", "-"} THEN p2 + 2 ELSE p2 + 1
      n3 == DigitsRun(cs, p3)
  IN \/ SubSeq(cs, p0, Len(cs)) = <<"I", "n", "f", "i", "n", "i", "t", "y">>
     \/ /\ n1 + n2 >= 1
        /\ \/ p2 = Len(cs) + 1
           \/ /\ p2 <= Len(cs)
              /\ cs[p2] \in {"e", "E"}
              /\ n3 >= 1
              /\ p3 + n3 = Len(cs) + 1

\* 0x / 0o / 0b literals
IsNonDecimalLiteral(cs) ==
  /\ Len(cs) >= 3
  /\ cs[1] = "0"
  /\ \/ cs[2] \in {"x", "X"} /\ \A i \in 3..Len(cs) : cs[i] \in HexChars
     \/ cs[2] \in {"o", "O"} /\ \A i \in 3..Len(cs) : cs[i] \in {"0", "1", "2", "3", "4", "5", "6", "7"}
     \/ cs[2] \in {"b", "B"} /\ \A i \in 3..Len(cs) : cs[i] \in {"0", "1"}

\* isNaN(v) of a string: Number(v) is NaN unless the trimmed text is empty or a
\* numeric literal
IsNaN(cs) ==
  LET t == Trim(cs) IN ~(t = <<>> \/ IsDecimalLiteral(t) \/ IsNonDecimalLiteral(t))

\* /^\d{4}-\d{2}-\d{2}/
DateShape(cs) ==
  /\ Len(cs) >= 10
  /\ \A i \in {1, 2, 3, 4, 6, 7, 9, 10} : cs[i] \in Digits
  /\ cs[5] = "-" /\ cs[8] = "-"

\* /^\d{4}-\d{2}-\d{2}T/
DateTimeShape(cs) == DateShape(cs) /\ Len(cs) >= 11 /\ cs[11] = "T"

\* new Date(v).toString() !== 'Invalid Date': a plain YYYY-MM-DD is a date when
\* month and day are in range; what the engine makes of any other text of that
\* shape is implementation-defined (cParses)
DateParses(cs) ==
  IF Len(cs) = 10
  THEN LET month == 10 * DigitVal(cs[6]) + DigitVal(cs[7])
           day == 10 * DigitVal(cs[9]) + DigitVal(cs[10])
       IN month \in 1..12 /\ day \in 1..31
  ELSE cParses

AsObjectId(v) == [t |-> "objectid", s |-> v.s]
AsNumber(v) == [t |-> "number", s |-> v.s]
AsDate(v) == [t |-> "date", s |-> v.s]

\* variant that tests the numeric shape before the identifier shape
maybeNumberNumericFirst(v) ==
  IF v.t = "str" /\ Trim(v.s) # <<>> /\ ~IsNaN(v.s) THEN AsNumber(v)
  ELSE IF v.t = "str" /\ IsObjectIdShape(v.s) THEN AsObjectId(v)
  ELSE v

\* new ObjectId never throws on 24 hexadecimal characters
maybeNumber(v) ==
  IF v.t = "str" /\ IsObjectIdShape(v.s) THEN AsObjectId(v)
  ELSE IF v.t = "str" /\ Trim(v.s) # <<>> /\ ~IsNaN(v.s) THEN AsNumber(v)
  ELSE v

maybeDate(v) ==
  IF v.t = "str" /\ (DateShape(v.s) \/ DateTimeShape(v.s))
  THEN IF DateParses(v.s) THEN AsDate(v) ELSE v
  ELSE v

ComparisonOps == {"eq", "ne", "gt", "gte", "lt", "lte"}

\* STANDARD_OPERATORS[op](v) for the comparison operators: { $op: ... }
CompareCondition(op, v) == Obj(<<Entry("$" \o op, maybeDate(maybeNumber(v)))>>)

(***************************************************************************)
(* The coercion applied to a family of values.                             *)
(***************************************************************************)
Alphabet == {"1", "a", "g", "-", ".", "e", " "}

RECURSIVE Rep(_, _)
Rep(c, n) == IF n <= 0 THEN <<>> ELSE <<c>> \o Rep(c, n - 1)

Stems ==
  { <<>>,
    Rep("1", ObjectIdLen - MaxSuffix), Rep("a", ObjectIdLen - MaxSuffix),
    Rep("1", ObjectIdLen - 1),
    <<"2", "0", "2", "4", "-", "0", "1", "-", "0", "1">>,
    <<"2", "0", "2", "4", "-", "1", "3", "-", "4", "5">>,
    <<"2", "0", "2", "4", "-", "0", "1", "-", "0", "1", "T", "1", "0", ":", "0", "0", ":", "0", "0">> }

Suffixes == UNION {[1..k -> Alphabet] : k \in 0..MaxSuffix}

CoerceInputs ==
  {Str(st \o su) : st \in Stems, su \in Suffixes} \cup {Scalar(100), Null}

InitCoerceVars ==
  /\ cIn \in CoerceInputs
  /\ cParses \in BOOLEAN
  /\ cOp = "none"
  /\ cOut = Obj(<<>>)

IdleCoerce ==
  /\ cIn = Null
  /\ cParses = FALSE
  /\ cOp = "none"
  /\ cOut = Obj(<<>>)

Coerce(op) ==
  /\ cOp = "none"
  /\ cOp' = op
  /\ cOut' = CompareCondition(op, cIn)
  /\ UNCHANGED <<cIn, cParses>>
  /\ UNCHANGED <<planVars, filterVars, queryVars, enhanceVars, matchVars, connVars>>

\* the order the design states: identifier shape, date shape, numeric, else unchanged
CoerceInStatedOrder(v) ==
  IF v.t # "str" THEN v
  ELSE IF IsObjectIdShape(v.s) THEN AsObjectId(v)
  ELSE IF DateShape(v.s) /\ DateParses(v.s) THEN AsDate(v)
  ELSE IF Trim(v.s) # <<>> /\ ~IsNaN(v.s) THEN AsNumber(v)
  ELSE v

\* C10: for every comparison operator the coerced value is the one the order
\* identifier, date, numeric, else unchanged gives; 24 decimal digits become an
\* identifier, a non-string is unchanged.
C10_CoercionOrder ==
  cOp # "none" =>
    /\ cOut = Obj(<<Entry("$" \o cOp, CoerceInStatedOrder(cIn))>>)
    /\ (cIn.t = "str" /\ Len(cIn.s) = ObjectIdLen /\ (\A i \in DOMAIN cIn.s : cIn.s[i] \in Digits))
         => cOut.e[1].v.t = "objectid"
    /\ cIn.t # "str" => cOut.e[1].v = cIn

C10_Witness ==
  /\ cOp = "gte"
  /\ cIn.t = "str"
  /\ Len(cIn.s) = ObjectIdLen
  /\ \A i \in DOMAIN cIn.s : cIn.s[i] \in Digits
  /\ cOut.e[1].v.t = "objectid"

(***************************************************************************)
(* Helpers of the /query handlers (server.js of both backends).            *)
(* An error message is the sequence of its words; <<>> stands for "did not *)
(* throw".                                                                 *)
(***************************************************************************)
AggregationTags == {"sum", "avg", "min", "max", "count"}

AllowedEntities == {"invoices", "customers", "products", "categories"}

AllowedOperators ==
  {"eq", "ne", "gt", "gte", "lt", "lte", "contains", "startsWith", "endsWith",
   "between", "in", "regex", "sum", "avg", "min", "max", "count"}

\* the characters of interest in the field names the model uses (the backquote
\* is written "backquote")
FieldChars == ("amount" :> {}) @@ ("*" :> {"*"}) @@ ("amount;$x" :> {";", "$"})

\* filter.field.includes(c)
FieldIncludes(field, c) == field \in DOMAIN FieldChars /\ c \in FieldChars[field]

\* validateFilter of the tabular server: the message it throws, <<>> when it returns true
validateFilterSQL(filter) ==
  IF filter.collection \notin AllowedEntities
  THEN <<"Invalid", "table:", filter.collection>>
  ELSE IF FieldIncludes(filter.field, "backquote") \/ FieldIncludes(filter.field, ";")
  THEN <<"Invalid", "field", "name:", filter.field>>
  ELSE IF filter.operator \notin AllowedOperators
  THEN <<"Invalid", "operator:", filter.operator>>
  ELSE IF filter.value.t = "obj"
  THEN <<"Object", "values", "not", "allowed", "for", "security", "reasons">>
  ELSE <<>>

\* validateFilter of the document server
validateFilterMongo(filter) ==
  IF filter.collection \notin AllowedEntities
  THEN <<"Invalid", "collection:", filter.collection>>
  ELSE IF FieldIncludes(filter.field, "$") \/ FieldIncludes(filter.field, ".")
  THEN <<"Invalid", "field", "name:", filter.field>>
  ELSE IF filter.operator \notin AllowedOperators
  THEN <<"Invalid", "operator:", filter.operator>>
  ELSE IF filter.value.t = "obj"
  THEN <<"Object", "values", "not", "allowed", "for", "security", "reasons">>
  ELSE <<>>

\* [...new Set(filters.map(f => f.collection))] as a set
CollectionsOf(filters) == {filters[i].collection : i \in DOMAIN filters}

\* resolveRoot of the tabular server
resolveRootSQL(filters) ==
  LET tables == CollectionsOf(filters) IN
  IF "invoices" \in tables THEN "invoices"
  ELSE IF Cardinality(tables) > 1 THEN "invoices"
  ELSE IF Cardinality(tables) = 1 THEN filters[1].collection
  ELSE "invoices"

\* resolveRoot of the document server
resolveRootMongo(filters) ==
  LET cols == CollectionsOf(filters) IN
  IF "invoices" \in cols THEN "invoices"
  ELSE IF Cardinality(cols) > 1 THEN "invoices"
  ELSE IF Cardinality(cols) = 1 /\ filters[1].collection \in {"customers", "products", "categories"}
  THEN "invoices"
  ELSE IF cols = {} \/ filters[1].collection = "" THEN "invoices"
  ELSE filters[1].collection

\* variant that qualifies every field, also a field of the root
resolveFieldPathQualified(r, f) == f.collection \o "." \o f.field

\* resolveFieldPath (the same text in both servers)
resolveFieldPath(r, f) == IF f.collection = r THEN f.field ELSE f.collection \o "." \o f.field

\* obj[k] !== undefined, obj[k], and obj[k] = v on an object kept in insertion order
ObjHas(o, k) == \E i \in DOMAIN o.e : o.e[i].k = k

ObjGet(o, k) == o.e[CHOOSE i \in DOMAIN o.e : o.e[i].k = k].v

ObjSet(o, k, v) ==
  IF ObjHas(o, k)
  THEN Obj([i \in DOMAIN o.e |-> IF o.e[i].k = k THEN Entry(k, v) ELSE o.e[i]])
  ELSE Obj(Append(o.e, Entry(k, v)))

\* the message of the TypeError a failed property read or call raises
TypeErrorMessage == <<"TypeError">>

\* filters.forEach(f => ...) of the tabular handler, from the i-th filter on
RECURSIVE convertFilters(_, _, _, _)
convertFilters(filters, i, sqlFilter, aggregationOps) ==
  IF i > Len(filters)
  THEN [error |-> <<>>, sqlFilter |-> sqlFilter, aggregationOps |-> aggregationOps]
  ELSE LET f == filters[i]
           err == validateFilterSQL(f)
           fieldPath == resolveFieldPath(resolveRootSQL(filters), f)
       IN IF err # <<>>
          THEN [error |-> err, sqlFilter |-> sqlFilter, aggregationOps |-> aggregationOps]
          ELSE IF f.operator \in AggregationTags
          THEN convertFilters(filters, i + 1, sqlFilter,
                              Append(aggregationOps, [operation |-> f.operator, field |-> fieldPath]))
          ELSE LET cur == IF ObjHas(sqlFilter, fieldPath) THEN ObjGet(sqlFilter, fieldPath) ELSE Obj(<<>>)
               IN convertFilters(filters, i + 1,
                                 ObjSet(sqlFilter, fieldPath, ObjSet(cur, "$" \o f.operator, f.value)),
                                 aggregationOps)

\* [...new Set(arr)]: first occurrences, in order
RECURSIVE Unique(_)
Unique(arr) ==
  IF arr = <<>> THEN <<>>
  ELSE LET init == Unique(SubSeq(arr, 1, Len(arr) - 1))
           last == arr[Len(arr)]
       IN IF \E i \in DOMAIN init : init[i] = last THEN init ELSE Append(init, last)

\* arr.filter(keep) / arr.map(fn) written with an index set
RECURSIVE SelectIdx(_, _)
SelectIdx(arr, keep) ==
  IF arr = <<>> THEN <<>>
  ELSE (IF 1 \in keep THEN <<arr[1]>> ELSE <<>>)
       \o SelectIdx(Tail(arr), {i - 1 : i \in keep \ {1}})

\* buildDetailedQueryPlan of the tabular server
buildDetailedQueryPlan(filters) ==
  LET r == resolveRootSQL(filters)
      plan == buildJoinPlanSQL(r, filters)
      others == SelectIdx(filters, {i \in DOMAIN filters :
                    filters[i].collection # r /\ filters[i].operator \notin AggregationTags})
  IN [threw |-> plan.threw, root |-> r, joins |-> plan.joins,
      projection |-> Unique(<<r \o ".*">> \o [i \in DOMAIN others |-> resolveFieldPath(r, others[i])])]

\* buildAggregationQueryPlan of the tabular server
buildAggregationQueryPlan(filters, aggregationOps) ==
  LET r == resolveRootSQL(filters)
      aggregationFilters == [i \in DOMAIN aggregationOps |->
          [collection |-> aggregationOps[i].collection, field |-> aggregationOps[i].field,
           operator |-> "exists"]]
      plan == buildJoinPlanSQL(r, [i \in DOMAIN filters |->
                  [collection |-> filters[i].collection, field |-> filters[i].field,
                   operator |-> filters[i].operator]] \o aggregationFilters)
  IN [threw |-> plan.threw, root |-> r, joins |-> plan.joins,
      projection |-> [i \in DOMAIN aggregationOps |->
          IF aggregationOps[i].operator = "count" THEN "*"
          ELSE resolveFieldPath(r, aggregationOps[i])]]

\* the plan of the regular branch of the tabular handler
regularQueryPlan(filters) ==
  LET r == resolveRootSQL(filters)
      plan == buildJoinPlanSQL(r, filters)
      others == SelectIdx(filters, {i \in DOMAIN filters : filters[i].collection # r})
  IN [threw |-> plan.threw, root |-> r, joins |-> plan.joins,
      projection |-> Unique(<<r \o ".*">> \o [i \in DOMAIN others |-> resolveFieldPath(r, others[i])])]

\* agg => ({operation, field: `${agg.collection}.${agg.field}`, ...})
transformAggregations(aggregation) ==
  [i \in DOMAIN aggregation |->
     [operation |-> aggregation[i].operator,
      field |-> aggregation[i].collection \o "." \o aggregation[i].field]]

(***************************************************************************)
(* Query executor, tabular backend (sqlQueryBuilder.js): what it computes  *)
(* before it hands a statement to the driver.                              *)
(***************************************************************************)
\* field.includes('.') for the column names the model uses
DottedNames == {c \o "." \o f : c \in AllowedEntities, f \in DOMAIN FieldChars}

\* one "<type> JOIN <toTable> ON <from> = <to>" clause
joinClause(j) ==
  <<j.type, "JOIN", j.to[1], "ON", j.from[1] \o "." \o j.from[2], "=", j.to[1] \o "." \o j.to[2]>>

\* executeSQLQuery up to pool.execute: the object given to buildSQLFilter, what
\* buildSQLFilter returned, and the statement
mainQuery(kind, queryPlan, filter) ==
  LET Statement(out) ==
        [arg |-> filter, out |-> out,
         query |-> [kind |-> kind,
                    select |-> [i \in DOMAIN queryPlan.projection |->
                                  IF queryPlan.projection[i] \in DottedNames
                                  THEN <<queryPlan.projection[i]>>
                                  ELSE <<queryPlan.root \o "." \o queryPlan.projection[i]>>],
                    from |-> queryPlan.root,
                    joins |-> [i \in DOMAIN queryPlan.joins |-> joinClause(queryPlan.joins[i])],
                    where |-> out.whereClause,
                    params |-> out.params]]
  IN Statement(buildSQLFilter(filter))

\* operation.toLowerCase() for the operation names the model uses
LowerOf == ("SUM" :> "sum") @@ ("COUNT" :> "count")

toLowerCase(name) == IF name \in DOMAIN LowerOf THEN LowerOf[name] ELSE name

\* the switch of executeAggregations: the aggregate expression, <<>> when the
\* operation is unsupported (it throws)
aggregateExpression(operation, field) ==
  LET op == toLowerCase(operation) IN
  IF op = "count" THEN (IF field = "*" THEN <<"COUNT(*)">> ELSE <<"COUNT", "(", field, ")">>)
  ELSE IF op = "sum" THEN <<"SUM", "(", field, ")">>
  ELSE IF op = "avg" THEN <<"AVG", "(", field, ")">>
  ELSE IF op = "min" THEN <<"MIN", "(", field, ")">>
  ELSE IF op = "max" THEN <<"MAX", "(", field, ")">>
  ELSE <<>>

\* one iteration of executeAggregations up to pool.execute
aggregateQuery(agg, queryPlan, filter) ==
  LET Statement(out) ==
        [arg |-> filter, out |-> out,
         query |-> [kind |-> "aggregate",
                    select |-> <<aggregateExpression(agg.operation, agg.field)>>,
                    from |-> queryPlan.root,
                    joins |-> [i \in DOMAIN queryPlan.joins |-> joinClause(queryPlan.joins[i])],
                    where |-> out.whereClause,
                    params |-> out.params]]
  IN Statement(buildSQLFilter(filter))

(***************************************************************************)
(* FilterTranslator, document backend (operators.js, filterBuilder.js).    *)
(***************************************************************************)
StandardOperators ==
  {"eq", "ne", "gt", "gte", "lt", "lte", "startsWith", "endsWith", "contains", "in", "between"}

\* OPERATORS = {...STANDARD_OPERATORS, ...AGGREGATION_OPERATORS}: a standard entry
\* is a function, an aggregation entry is a string
OPERATORS ==
  [op \in StandardOperators |-> "function"] @@
  ("sum" :> "$sum") @@ ("avg" :> "$avg") @@ ("min" :> "$min") @@ ("max" :> "$max") @@
  ("count" :> "$sum") @@ ("first" :> "$first") @@ ("last" :> "$last")

Undefined == [t |-> "undefined"]

\* a template literal around v: the text when v is a string, else the pieces
Template(pre, v, suf) ==
  IF v.t = "str" THEN Str(pre \o v.s \o suf)
  ELSE [t |-> "template", pre |-> pre, v |-> v, suf |-> suf]

\* v.from / v.to
PropOf(v, name) == IF v.t = "obj" /\ ObjHas(v, name) THEN ObjGet(v, name) ELSE Undefined

\* STANDARD_OPERATORS[op](v): the condition, or the error the call raises
applyOperator(op, v) ==
  IF op \in ComparisonOps THEN [error |-> <<>>, cond |-> CompareCondition(op, v)]
  ELSE IF op = "startsWith"
  THEN [error |-> <<>>,
        cond |-> Obj(<<Entry("$regex", Template(<<"^">>, v, <<>>)), Entry("$options", Str(<<"i">>))>>)]
  ELSE IF op = "endsWith"
  THEN [error |-> <<>>,
        cond |-> Obj(<<Entry("$regex", Template(<<>>, v, <<"$">>)), Entry("$options", Str(<<"i">>))>>)]
  ELSE IF op = "contains"
  THEN [error |-> <<>>, cond |-> Obj(<<Entry("$regex", v), Entry("$options", Str(<<"i">>))>>)]
  ELSE IF op = "in"
  THEN [error |-> <<>>,
        cond |-> Obj(<<Entry("$in", IF v.t = "array"
                                    THEN Arr([i \in DOMAIN v.items |-> maybeDate(maybeNumber(v.items[i]))])
                                    ELSE Arr(<<v>>))>>)]
  ELSE IF v.t \in {"null", "undefined"}
  THEN [error |-> TypeErrorMessage, cond |-> Obj(<<>>)]
  ELSE [error |-> <<>>,
        cond |-> Obj(<<Entry("$gte", maybeDate(maybeNumber(PropOf(v, "from")))),
                       Entry("$lte", maybeDate(maybeNumber(PropOf(v, "to"))))>>)]

\* Object.assign(target, source)
RECURSIVE ObjectAssign(_, _)
ObjectAssign(target, source) ==
  IF source.e = <<>> THEN target
  ELSE ObjectAssign(ObjSet(target, source.e[1].k, source.e[1].v), Obj(Tail(source.e)))

\* the loop of buildMatch from the i-th filter on
RECURSIVE buildMatchFrom(_, _, _)
buildMatchFrom(filters, i, match) ==
  IF i > Len(filters) THEN [error |-> <<>>, match |-> match]
  ELSE LET f == filters[i] IN
       IF f.operator \notin DOMAIN OPERATORS
       THEN [error |-> <<"Invalid", "operator:", f.operator>>, match |-> match]
       ELSE IF OPERATORS[f.operator] # "function"
       THEN [error |-> TypeErrorMessage, match |-> match]
       ELSE LET Put(c) ==
                  IF c.error # <<>> THEN [error |-> c.error, match |-> match]
                  ELSE buildMatchFrom(filters, i + 1,
                         IF ~ObjHas(match, f.field) THEN ObjSet(match, f.field, c.cond)
                         ELSE ObjSet(match, f.field, ObjectAssign(ObjGet(match, f.field), c.cond)))
            IN Put(applyOperator(f.operator, f.value))

buildMatch(filters) == buildMatchFrom(filters, 1, Obj(<<>>))

(***************************************************************************)
(* Pipelines of the document server.                                       *)
(***************************************************************************)
\* joins.forEach(j => { $lookup ...; $unwind ... })
RECURSIVE joinStages(_)
joinStages(joins) ==
  IF joins = <<>> THEN <<>>
  ELSE << [stage |-> "$lookup", spec |-> joins[1]],
          [stage |-> "$unwind", spec |-> "$" \o joins[1].as] >>
       \o joinStages(Tail(joins))

\* filters.map(f => ({field: resolveFieldPath(root, f), operator, value}))
matchFiltersOf(r, filters) ==
  [i \in DOMAIN filters |->
     [field |-> resolveFieldPath(r, filters[i]), operator |-> filters[i].operator,
      value |-> filters[i].value]]

\* ... .filter(f => !['sum', 'avg', 'min', 'max', 'count'].includes(f.operator))
withoutAggregationTags(matchFilters) ==
  SelectIdx(matchFilters, {i \in DOMAIN matchFilters : matchFilters[i].operator \notin AggregationTags})

\* variant that calls buildMatch and pushes $match for an empty list too
matchStageAlways(stages, matchFilters) ==
  LET Push(m) ==
        [error |-> m.error,
         stages |-> IF m.error = <<>> THEN Append(stages, [stage |-> "$match", spec |-> m.match])
                    ELSE stages,
         calls |-> <<matchFilters>>]
  IN Push(buildMatch(matchFilters))

\* a pipeline under construction: the stages, the list given to buildMatch (if it
\* was called) and the error that ended the construction
matchStage(stages, matchFilters) ==
  IF matchFilters = <<>> THEN [error |-> <<>>, stages |-> stages, calls |-> <<>>]
  ELSE LET Push(m) ==
             [error |-> m.error,
              stages |-> IF m.error = <<>> THEN Append(stages, [stage |-> "$match", spec |-> m.match])
                         ELSE stages,
              calls |-> <<matchFilters>>]
       IN Push(buildMatch(matchFilters))

\* buildDetailedRecordsPipeline
buildDetailedRecordsPipeline(filters) ==
  LET r == resolveRootMongo(filters)
      plan == buildJoinPlanMongo(r, filters)
  IN IF plan.threw THEN [error |-> TypeErrorMessage, stages |-> <<>>, calls |-> <<>>]
     ELSE matchStage(joinStages(plan.joins), withoutAggregationTags(matchFiltersOf(r, filters)))

\* the $group stage: aggregationOps.forEach(op => ...)
RECURSIVE groupStageFrom(_, _, _, _)
groupStageFrom(r, aggregationOps, i, groupStage) ==
  IF i > Len(aggregationOps) THEN groupStage
  ELSE LET op == aggregationOps[i] IN
       groupStageFrom(r, aggregationOps, i + 1,
         IF op.operator = "count"
         THEN ObjSet(groupStage, "count", Obj(<<Entry("$sum", Scalar(1))>>))
         ELSE IF op.operator \in {"sum", "avg", "min", "max"}
         THEN ObjSet(groupStage, op.operator,
                     Obj(<<Entry("$" \o op.operator, Str(<<"$" \o resolveFieldPath(r, op)>>))>>))
         ELSE groupStage)

\* buildAggregationPipeline
buildAggregationPipeline(filters, aggregationOps) ==
  LET r == resolveRootMongo(filters)
      plan == buildJoinPlanMongo(r, filters)
  IN IF plan.threw THEN [error |-> TypeErrorMessage, stages |-> <<>>, calls |-> <<>>]
     ELSE LET Group(m) ==
                IF m.error # <<>> \/ aggregationOps = <<>> THEN m
                ELSE [m EXCEPT !.stages = Append(m.stages,
                        [stage |-> "$group",
                         spec |-> groupStageFrom(r, aggregationOps, 1, Obj(<<Entry("_id", Null)>>))])]
          IN Group(matchStage(joinStages(plan.joins), withoutAggregationTags(matchFiltersOf(r, filters))))

\* the pipeline of the regular branch of the document handler, once the joins are
\* planned and the filters validated
regularPipeline(filters) ==
  LET r == resolveRootMongo(filters) IN
  matchStage(joinStages(buildJoinPlanMongo(r, filters).joins), matchFiltersOf(r, filters))

(***************************************************************************)
(* The /query handlers.  A handler runs from one await to the next in one  *)
(* step; a driver call ends with <<>> (success) or with the message of the *)
(* error it raised.                                                        *)
(***************************************************************************)
NoResponse ==
  [status |-> 0, type |-> "none", root |-> "", error |-> <<>>, data |-> "none",
   aggregation_data |-> <<>>, aggregation_rows |-> "none"]

\* res.status(status).json({error})
ErrorResponse(status, error) == [NoResponse EXCEPT !.status = status, !.type = "error", !.error = error]

\* err.message.includes(word), on the words of the message
Includes(message, word) == \E i \in DOMAIN message : message[i] = word

\* the catch block of both handlers
CatchError(message) ==
  IF Includes(message, "Invalid") \/ Includes(message, "validation")
  THEN ErrorResponse(400, message)
  ELSE ErrorResponse(500, <<"Internal", "server", "error">>)

\* "for (const f of filters) { validateFilter(f); if (!f.collection || ...) return 400 }"
RECURSIVE validateLoopSQL(_, _)
validateLoopSQL(filters, i) ==
  IF i > Len(filters) THEN [error |-> <<>>, incomplete |-> FALSE]
  ELSE LET err == validateFilterSQL(filters[i]) IN
       IF err # <<>> THEN [error |-> err, incomplete |-> FALSE]
       ELSE IF filters[i].collection = "" \/ filters[i].field = "" \/ filters[i].operator = ""
       THEN [error |-> <<>>, incomplete |-> TRUE]
       ELSE validateLoopSQL(filters, i + 1)

RECURSIVE validateLoopMongo(_, _)
validateLoopMongo(filters, i) ==
  IF i > Len(filters) THEN [error |-> <<>>, incomplete |-> FALSE]
  ELSE LET err == validateFilterMongo(filters[i]) IN
       IF err # <<>> THEN [error |-> err, incomplete |-> FALSE]
       ELSE IF filters[i].collection = "" \/ filters[i].field = "" \/ filters[i].operator = ""
       THEN [error |-> <<>>, incomplete |-> TRUE]
       ELSE validateLoopMongo(filters, i + 1)

IncompleteFilter == <<"Each", "filter", "must", "have", "collection,", "field,", "and", "operator">>

\* what a synchronous stretch of a handler leaves behind: the next await (or
\* "done" with the response), the translator calls made and the statements issued
Sent(resp, matchCalls) ==
  [pc |-> "done", resp |-> resp, matchCalls |-> matchCalls, sqlCalls |-> <<>>, queries |-> <<>>,
   idx |-> 0, results |-> <<>>]

IssuedSQL(pc, q, idx, results) ==
  [pc |-> pc, resp |-> NoResponse, matchCalls |-> <<>>,
   sqlCalls |-> <<[arg |-> q.arg, out |-> q.out]>>, queries |-> <<q.query>>,
   idx |-> idx, results |-> results]

IssuedPipeline(pc, kind, r, p) ==
  [pc |-> pc, resp |-> NoResponse, matchCalls |-> p.calls, sqlCalls |-> <<>>,
   queries |-> <<[kind |-> kind, from |-> r, pipeline |-> p.stages]>>,
   idx |-> 0, results |-> <<>>]

\* the tabular handler from its entry to the first pool.execute
sqlStart(req) ==
  LET Detailed(conv, plan) ==
        IF plan.threw THEN Sent(CatchError(TypeErrorMessage), <<>>)
        ELSE IssuedSQL("s_detailed_db", mainQuery("detailed", plan, conv.sqlFilter), 0, <<>>)
      Regular(conv, plan, v) ==
        IF plan.threw THEN Sent(CatchError(TypeErrorMessage), <<>>)
        ELSE IF v.error # <<>> THEN Sent(CatchError(v.error), <<>>)
        ELSE IF v.incomplete THEN Sent(ErrorResponse(400, IncompleteFilter), <<>>)
        ELSE IssuedSQL("s_regular_db", mainQuery("regular", plan, conv.sqlFilter), 0, <<>>)
      Converted(conv) ==
        IF conv.error # <<>> THEN Sent(CatchError(conv.error), <<>>)
        ELSE IF req.aggregation # <<>> THEN Detailed(conv, buildDetailedQueryPlan(req.filters))
        ELSE Regular(conv, regularQueryPlan(req.filters), validateLoopSQL(req.filters, 1))
  IN IF ~req.database THEN Sent(ErrorResponse(400, <<"Database", "name", "is", "required">>), <<>>)
     ELSE Converted(convertFilters(req.filters, 1, Obj(<<>>), <<>>))

\* the response of the aggregation branch of the tabular handler
BothResponseSQL(detailed, results) ==
  [NoResponse EXCEPT !.status = 200, !.type = "both", !.data = detailed, !.aggregation_data = results]

\* executeAggregations from the i-th aggregation on, up to the next pool.execute
RECURSIVE aggregationsFrom(_, _, _, _)
aggregationsFrom(req, detailed, i, results) ==
  LET aggregations == transformAggregations(req.aggregation) IN
  IF i > Len(aggregations) THEN Sent(BothResponseSQL(detailed, results), <<>>)
  ELSE IF aggregateExpression(aggregations[i].operation, aggregations[i].field) = <<>>
  THEN aggregationsFrom(req, detailed, i + 1,
         Append(results, [operation |-> aggregations[i].operation, field |-> aggregations[i].field,
                          error |-> <<"Unsupported", "aggregation", "operation:", aggregations[i].operation>>,
                          value |-> "null"]))
  ELSE IssuedSQL("s_agg_db",
                 aggregateQuery(aggregations[i], buildAggregationQueryPlan(req.filters, req.aggregation),
                                convertFilters(req.filters, 1, Obj(<<>>), <<>>).sqlFilter),
                 i, results)

\* the document handler from getDB's return to the first aggregate()
mongoStart(req) ==
  LET r == resolveRootMongo(req.filters)
      Run(pc, kind, p) ==
        IF p.error # <<>> THEN Sent(CatchError(p.error), p.calls)
        ELSE IssuedPipeline(pc, kind, r, p)
      Regular(threw, v) ==
        IF threw THEN Sent(CatchError(TypeErrorMessage), <<>>)
        ELSE IF v.error # <<>> THEN Sent(CatchError(v.error), <<>>)
        ELSE IF v.incomplete THEN Sent(ErrorResponse(400, IncompleteFilter), <<>>)
        ELSE Run("m_regular_db", "regular", regularPipeline(req.filters))
  IN IF req.aggregation # <<>>
     THEN Run("m_detailed_db", "detailed", buildDetailedRecordsPipeline(req.filters))
     ELSE Regular(buildJoinPlanMongo(r, req.filters).threw, validateLoopMongo(req.filters, 1))

\* the handler's state after a synchronous stretch
Continue(o) ==
  /\ qPc' = o.pc
  /\ qResp' = o.resp
  /\ qMatchCalls' = qMatchCalls \o o.matchCalls
  /\ qSqlCalls' = qSqlCalls \o o.sqlCalls
  /\ qQueries' = qQueries \o o.queries
  /\ qAggIdx' = o.idx
  /\ qAggResults' = o.results
  /\ UNCHANGED <<qBackend, qReq>>
  /\ UNCHANGED <<planVars, filterVars, coerceVars, enhanceVars, matchVars, connVars>>

(***************************************************************************)
(* The requests the handlers are run on.                                   *)
(***************************************************************************)
MaxFilters == 2

MaxAggregations == 2

QueryOperators == ComparisonOps \cup {"contains", "regex", "sum", "exists"}

QueryFilters ==
  {[collection |-> "invoices", field |-> "amount", operator |-> op, value |-> Scalar(100)] :
     op \in QueryOperators}
  \cup {[collection |-> "invoices", field |-> "amount", operator |-> "gt", value |-> Str(<<"1", "0", "0">>)]}
  \cup {[collection |-> "customers", field |-> "amount", operator |-> op, value |-> Scalar(100)] :
          op \in {"lte", "sum"}}
  \cup {[collection |-> "invoices", field |-> "amount", operator |-> op, value |-> Str(<<"1", "0", "0">>)] :
          op \in {"contains", "regex"}}

QueryAggregations ==
  { [collection |-> "invoices", field |-> "amount", operator |-> "sum"],
    [collection |-> "customers", field |-> "*", operator |-> "count"] }

\* the filters that follow the first one of a list
FollowingFilters ==
  {f \in QueryFilters :
     \/ f.collection = "invoices" /\ f.value = Scalar(100)
           /\ f.operator \in {"gt", "contains", "regex", "sum", "exists"}
     \/ f.collection = "customers" /\ f.operator = "lte"}

\* filters validateFilter rejects in both servers: a collection outside the
\* whitelist, a forbidden character in the field name, an object value
RejectedFilters ==
  { [collection |-> UnknownEntity, field |-> "amount", operator |-> "contains",
     value |-> Str(<<"1", "0", "0">>)],
    [collection |-> "invoices", field |-> "amount;$x", operator |-> "contains",
     value |-> Str(<<"1", "0", "0">>)],
    [collection |-> "invoices", field |-> "amount", operator |-> "contains",
     value |-> Obj(<<Entry("$ne", Null)>>)] }

\* a rejected filter is sent as the only filter of its request
FilterLists ==
  {<<>>} \cup {<<f>> \o t : f \in QueryFilters, t \in SeqsUpTo(FollowingFilters, MaxFilters - 1)}
  \cup {<<f>> : f \in RejectedFilters}

\* requests without a database name are run with at most one filter
Requests ==
  [database : {TRUE}, filters : FilterLists,
   aggregation : SeqsUpTo(QueryAggregations, MaxAggregations)]
  \cup [database : {FALSE}, filters : SeqsUpTo(QueryFilters, 1), aggregation : {<<>>}]

\* messages a failing driver call may carry
DriverMessages == {<<"ECONNREFUSED">>, <<"Invalid", "object", "name">>}

DriverOutcomes == {<<>>} \cup DriverMessages

InitQueryVars ==
  /\ qBackend \in {"sql", "mongo"}
  /\ qReq \in Requests
  /\ qPc = "start"
  /\ qMatchCalls = <<>> /\ qSqlCalls = <<>> /\ qQueries = <<>>
  /\ qDetailed = "none" /\ qAggIdx = 0 /\ qAggResults = <<>>
  /\ qResp = NoResponse
  /\ qDriverErrors = <<>>

IdleQuery ==
  /\ qBackend = "sql"
  /\ qReq = [database |-> TRUE, filters |-> <<>>, aggregation |-> <<>>]
  /\ qPc = "idle"
  /\ qMatchCalls = <<>> /\ qSqlCalls = <<>> /\ qQueries = <<>>
  /\ qDetailed = "none" /\ qAggIdx = 0 /\ qAggResults = <<>>
  /\ qResp = NoResponse
  /\ qDriverErrors = <<>>

\* a driver call that ends with an error is recorded with the await it ended
Raised(outcome) ==
  IF outcome = <<>> THEN qDriverErrors
  ELSE Append(qDriverErrors, [at |-> qPc, message |-> outcome])

(***************************************************************************)
(* Steps of the tabular handler.                                           *)
(***************************************************************************)
S_Begin ==
  /\ qBackend = "sql" /\ qPc = "start"
  /\ UNCHANGED qDriverErrors
  /\ \E o \in {sqlStart(qReq)} : Continue(o)
  /\ UNCHANGED qDetailed

\* the main query of the regular branch returns: a failure leaves data = []
S_RegularDb(outcome) ==
  /\ qPc = "s_regular_db"
  /\ qDriverErrors' = Raised(outcome)
  /\ qDetailed' = IF outcome = <<>> THEN "rows" ELSE "empty"
  /\ \E o \in {Sent([NoResponse EXCEPT !.status = 200, !.type = "regular",
                                       !.root = resolveRootSQL(qReq.filters),
                                       !.data = IF outcome = <<>> THEN "rows" ELSE "empty"], <<>>)} :
       Continue(o)

\* the detailed query of the aggregation branch returns; the handler goes on to
\* the main query of the aggregation plan
S_DetailedDb(outcome) ==
  /\ qPc = "s_detailed_db"
  /\ qDriverErrors' = Raised(outcome)
  /\ qDetailed' = IF outcome = <<>> THEN "rows" ELSE "empty"
  /\ \E plan \in {buildAggregationQueryPlan(qReq.filters, qReq.aggregation)} :
       \E o \in {IF plan.threw THEN Sent(CatchError(TypeErrorMessage), <<>>)
                 ELSE IssuedSQL("s_aggmain_db",
                        mainQuery("aggregation", plan,
                                  convertFilters(qReq.filters, 1, Obj(<<>>), <<>>).sqlFilter),
                        0, <<>>)} :
         Continue(o)

\* the main query of the aggregation plan returns: a failure leaves aggregations = []
S_AggMainDb(outcome) ==
  /\ qPc = "s_aggmain_db"
  /\ qDriverErrors' = Raised(outcome)
  /\ \E o \in {IF outcome = <<>> THEN aggregationsFrom(qReq, qDetailed, 1, <<>>)
               ELSE Sent(BothResponseSQL(qDetailed, <<>>), <<>>)} :
       Continue(o)
  /\ UNCHANGED qDetailed

\* one aggregate statement returns: its value, or its error, is pushed
S_AggDb(outcome) ==
  /\ qPc = "s_agg_db"
  /\ qDriverErrors' = Raised(outcome)
  /\ \E agg \in {transformAggregations(qReq.aggregation)[qAggIdx]} :
       \E o \in {aggregationsFrom(qReq, qDetailed, qAggIdx + 1,
                   Append(qAggResults, [operation |-> agg.operation, field |-> agg.field,
                                        error |-> outcome,
                                        value |-> IF outcome = <<>> THEN "value" ELSE "null"]))} :
         Continue(o)
  /\ UNCHANGED qDetailed

(***************************************************************************)
(* Steps of the document handler.                                          *)
(***************************************************************************)
M_Begin ==
  /\ qBackend = "mongo" /\ qPc = "start"
  /\ UNCHANGED qDriverErrors
  /\ \E o \in {IF ~qReq.database
               THEN Sent(ErrorResponse(400, <<"Database", "name", "is", "required">>), <<>>)
               ELSE [Sent(NoResponse, <<>>) EXCEPT !.pc = "m_getdb"]} :
       Continue(o)
  /\ UNCHANGED qDetailed

\* getDB returns a handle or throws
M_GetDB(outcome) ==
  /\ qPc = "m_getdb"
  /\ qDriverErrors' = Raised(outcome)
  /\ \E o \in {IF outcome = <<>> THEN mongoStart(qReq)
               ELSE Sent(CatchError(<<"Failed", "to", "connect", "to", "MongoDB:">> \o outcome), <<>>)} :
       Continue(o)
  /\ UNCHANGED qDetailed

\* the detailed aggregate returns; the aggregation pipeline is built and run
M_DetailedDb(outcome) ==
  /\ qPc = "m_detailed_db"
  /\ qDriverErrors' = Raised(outcome)
  /\ qDetailed' = IF outcome = <<>> THEN "rows" ELSE qDetailed
  /\ \E p \in {buildAggregationPipeline(qReq.filters, qReq.aggregation)} :
       \E o \in {IF outcome # <<>> THEN Sent(CatchError(outcome), <<>>)
                 ELSE IF p.error # <<>> THEN Sent(CatchError(p.error), p.calls)
                 ELSE IssuedPipeline("m_agg_db", "aggregation", resolveRootMongo(qReq.filters), p)} :
         Continue(o)

M_AggDb(outcome) ==
  /\ qPc = "m_agg_db"
  /\ qDriverErrors' = Raised(outcome)
  /\ \E o \in {IF outcome # <<>> THEN Sent(CatchError(outcome), <<>>)
               ELSE [Sent(NoResponse, <<>>) EXCEPT !.pc = "m_enhance_both"]} :
       Continue(o)
  /\ UNCHANGED qDetailed

M_RegularDb(outcome) ==
  /\ qPc = "m_regular_db"
  /\ qDriverErrors' = Raised(outcome)
  /\ qDetailed' = IF outcome = <<>> THEN "rows" ELSE qDetailed
  /\ \E o \in {IF outcome # <<>> THEN Sent(CatchError(outcome), <<>>)
               ELSE [Sent(NoResponse, <<>>) EXCEPT !.pc = "m_enhance_regular"]} :
       Continue(o)

\* enhanceResultsWithJoinedFields swallows the errors of its lookups; the response follows
M_Enhance ==
  /\ qPc \in {"m_enhance_both", "m_enhance_regular"}
  /\ UNCHANGED qDriverErrors
  /\ \E o \in {IF qPc = "m_enhance_both"
               THEN Sent([NoResponse EXCEPT !.status = 200, !.type = "both", !.data = qDetailed,
                                            !.aggregation_rows = "rows"], <<>>)
               ELSE Sent([NoResponse EXCEPT !.status = 200, !.type = "regular",
                                            !.root = resolveRootMongo(qReq.filters),
                                            !.data = qDetailed], <<>>)} :
       Continue(o)
  /\ UNCHANGED qDetailed

(***************************************************************************)
(* Reference notions for the handler claims.                               *)
(***************************************************************************)
\* the (field, operator key) pairs of an object given to buildSQLFilter
OperatorEntries(arg) ==
  UNION {{<<arg.e[i].k, arg.e[i].v.e[j].k>> : j \in DOMAIN arg.e[i].v.e} : i \in DOMAIN arg.e}

DollarTags == {"$" \o t : t \in AggregationTags}

\* no list given to buildMatch holds an aggregation-tagged filter
MatchCallsFreeOfTags ==
  \A c \in DOMAIN qMatchCalls : \A i \in DOMAIN qMatchCalls[c] :
    qMatchCalls[c][i].operator \notin AggregationTags

\* no object given to buildSQLFilter holds an aggregation-tagged key
SqlCallsFreeOfTags ==
  \A c \in DOMAIN qSqlCalls : \A e \in OperatorEntries(qSqlCalls[c].arg) : e[2] \notin DollarTags

\* C5: in every /query handler path of both backends a filter whose operator is
\* an aggregation tag is neither passed to buildMatch nor placed into the object
\* given to buildSQLFilter.
C5_AggregationTagsNeverTranslated == MatchCallsFreeOfTags /\ SqlCallsFreeOfTags

\* the part of C5 the tabular handler keeps
C5_TabularHandlerKeepsTagsOut == SqlCallsFreeOfTags

\* the part of C5 the aggregation branch of the document handler keeps
C5_AggregationBranchKeepsTagsOut == (qReq.aggregation # <<>>) => MatchCallsFreeOfTags

\* the tabular translator was given an operator key SQL_OPERATORS lacks
SqlUnsupportedGiven ==
  \E c \in DOMAIN qSqlCalls : \E e \in OperatorEntries(qSqlCalls[c].arg) : e[2] \notin DOMAIN SQL_OPERATORS

\* the document translator was given an operator OPERATORS lacks
MatchUnsupportedGiven ==
  \E c \in DOMAIN qMatchCalls : \E i \in DOMAIN qMatchCalls[c] :
    qMatchCalls[c][i].operator \notin DOMAIN OPERATORS

\* the request ends with an unsupported-operator error and nothing is executed
FailsAsUnsupported ==
  /\ qQueries = <<>>
  /\ qPc = "done"
  /\ qResp.status = 400
  /\ Includes(qResp.error, "operator:")

\* C6: a filter whose operator the backend's translator has no translation for
\* makes translation fail with an unsupported-operator error; no predicate
\* omitting the filter's condition is produced.
C6_UnsupportedOperatorFails ==
  (SqlUnsupportedGiven \/ MatchUnsupportedGiven) => FailsAsUnsupported

\* the document translator rejects what it cannot translate, unless an
\* aggregation tag reached it first
C6_DocumentTranslatorRejects ==
  (MatchUnsupportedGiven /\ MatchCallsFreeOfTags) => FailsAsUnsupported

NativeComparator ==
  ("eq" :> "=") @@ ("ne" :> "!=") @@ ("gt" :> ">") @@ ("gte" :> ">=") @@ ("lt" :> "<") @@ ("lte" :> "<=")

\* a request of one comparison filter, past the filter conversion of the tabular handler
SingleComparison ==
  /\ qBackend = "sql"
  /\ qReq.database
  /\ Len(qReq.filters) = 1
  /\ qReq.filters[1].operator \in ComparisonOps
  /\ qPc \notin {"start", "idle"}

\* C9: for a single comparison filter on a field of the root table the tabular
\* path yields WHERE <field> <native comparator> ? with the supplied value as
\* the only parameter, unchanged.
C9_ComparisonRoundTrip ==
  SingleComparison =>
    /\ qSqlCalls # <<>>
    /\ \A c \in DOMAIN qSqlCalls :
         qSqlCalls[c].out =
           [whereClause |-> <<"WHERE", qReq.filters[1].field, NativeComparator[qReq.filters[1].operator], "?">>,
            params |-> <<qReq.filters[1].value>>]

C9_Witness ==
  /\ SingleComparison
  /\ qReq.filters[1] = [collection |-> "invoices", field |-> "amount", operator |-> "gt", value |-> Scalar(100)]
  /\ qSqlCalls # <<>>
  /\ qSqlCalls[1].out = [whereClause |-> <<"WHERE", "amount", ">", "?">>, params |-> <<Scalar(100)>>]

\* the awaits of the tabular handler at which a main query is running
MainQueryAwaits == {"s_regular_db", "s_detailed_db", "s_aggmain_db"}

\* the driver failed while the tabular executor ran a main query
MainQueryFailed == \E i \in DOMAIN qDriverErrors : qDriverErrors[i].at \in MainQueryAwaits

\* C11: whenever the database driver fails while the tabular executor runs the
\* main query of a /query request, the request ends with an error response, never
\* with a success response that carries an empty row list.
C11_DriverFailurePropagated ==
  (qBackend = "sql" /\ MainQueryFailed /\ qPc = "done") => qResp.type = "error"

\* the texts a response body carries
ResponseTexts(resp) ==
  {resp.error} \cup {resp.aggregation_data[i].error : i \in DOMAIN resp.aggregation_data}

\* text.includes(message), on words
ContainsText(text, message) ==
  /\ message # <<>>
  /\ \E k \in 0..(Len(text) - Len(message)) : SubSeq(text, k + 1, k + Len(message)) = message

\* C12: no field of the response body of /query contains the message of an
\* error the database driver raised, whatever the message and whichever call failed.
C12_NoDriverTextInResponse ==
  \A i \in DOMAIN qDriverErrors : \A t \in ResponseTexts(qResp) :
    ~ContainsText(t, qDriverErrors[i].message)

\* a response of status 500 carries the generic text only
C12_InternalFaultIsGeneric ==
  qResp.status = 500 => qResp.error = <<"Internal", "server", "error">>

EmptyRequest == qReq.database /\ qReq.filters = <<>> /\ qReq.aggregation = <<>>

\* getDB threw
ConnectFailed == \E i \in DOMAIN qDriverErrors : qDriverErrors[i].at = "m_getdb"

\* the handler is past the point where it issues its first query
PastFirstQuery == qPc \notin {"idle", "start", "m_getdb"} /\ ~ConnectFailed

AggregationAnswered ==
  /\ qReq.database
  /\ qReq.aggregation # <<>>
  /\ qPc = "done"
  /\ qResp.status = 200
  /\ qDriverErrors = <<>>

\* the last stage of the aggregation pipeline puts all documents into one group
GroupsIntoOne ==
  \E i \in DOMAIN qQueries :
    /\ qQueries[i].kind = "aggregation"
    /\ qQueries[i].pipeline # <<>>
    /\ LET lastStage == qQueries[i].pipeline[Len(qQueries[i].pipeline)] IN
       lastStage.stage = "$group" /\ PropOf(lastStage.spec, "_id") = Null

\* C15: a request with at least one aggregation op gets an aggregate result of
\* exactly one summary row, whatever the number of ops: one entry in the tabular
\* server's aggregation_data, one group in the document server's pipeline.
C15_OneSummaryRow ==
  AggregationAnswered =>
    IF qBackend = "sql" THEN Len(qResp.aggregation_data) = 1 ELSE GroupsIntoOne

\* the document server groups all documents under the single key null
C15_DocumentPipelineSingleGroup ==
  (AggregationAnswered /\ qBackend = "mongo") => GroupsIntoOne

\* the stages of a pipeline before its $group stage
WithoutGroup(pipeline) == SelectSeq(pipeline, LAMBDA st : st.stage # "$group")

\* the detailed query and an aggregate query use the same joins
SameJoins(d, a) ==
  IF qBackend = "sql" THEN a.joins = d.joins
  ELSE SelectSeq(a.pipeline, LAMBDA st : st.stage \in {"$lookup", "$unwind"})
         = SelectSeq(d.pipeline, LAMBDA st : st.stage \in {"$lookup", "$unwind"})

\* the detailed query and an aggregate query use the same predicate
SamePredicate(d, a) ==
  IF qBackend = "sql" THEN a.where = d.where /\ a.params = d.params
  ELSE SelectSeq(a.pipeline, LAMBDA st : st.stage = "$match")
         = SelectSeq(d.pipeline, LAMBDA st : st.stage = "$match")

AggregateKinds == {"aggregation", "aggregate"}

\* C16: within one aggregation request every query that computes aggregates uses
\* the join list and the filter predicate of the detailed-rows query.
C16_SameFilterJoinContext ==
  \A d \in DOMAIN qQueries : \A a \in DOMAIN qQueries :
    (qQueries[d].kind = "detailed" /\ qQueries[a].kind \in AggregateKinds) =>
      SameJoins(qQueries[d], qQueries[a]) /\ SamePredicate(qQueries[d], qQueries[a])

\* the predicate is the same in both servers, the joins in the document server
C16_SamePredicateEverywhere ==
  \A d \in DOMAIN qQueries : \A a \in DOMAIN qQueries :
    (qQueries[d].kind = "detailed" /\ qQueries[a].kind \in AggregateKinds) =>
      /\ SamePredicate(qQueries[d], qQueries[a])
      /\ qBackend = "mongo" => SameJoins(qQueries[d], qQueries[a])

PatternOperators == {"contains", "startsWith", "endsWith", "regex"}

\* a request of one pattern filter with a string value, past validation and translation
SinglePattern ==
  /\ qReq.database
  /\ Len(qReq.filters) = 1
  /\ qReq.filters[1].operator \in PatternOperators
  /\ qReq.filters[1].value.t = "str"
  /\ validateFilterSQL(qReq.filters[1]) = <<>>
  /\ validateFilterMongo(qReq.filters[1]) = <<>>
  /\ PastFirstQuery

\* the tabular translator made a LIKE condition of the filter
SqlPatternCondition ==
  /\ qSqlCalls # <<>>
  /\ \A c \in DOMAIN qSqlCalls :
       /\ qSqlCalls[c].out.whereClause = <<"WHERE", qReq.filters[1].field, "LIKE", "?">>
       /\ Len(qSqlCalls[c].out.params) = 1

\* the document translator made a $regex condition of the filter
MatchPatternCondition ==
  /\ qQueries # <<>>
  /\ \A i \in DOMAIN qQueries : \E n \in DOMAIN qQueries[i].pipeline :
       /\ qQueries[i].pipeline[n].stage = "$match"
       /\ ObjHas(PropOf(qQueries[i].pipeline[n].spec, qReq.filters[1].field), "$regex")

\* C17: each pattern operator that passes validateFilter (contains, startsWith,
\* endsWith, regex) is translated into a pattern-match condition by each backend;
\* none is rejected or dropped by a translator.
C17_PatternOperatorsTranslated ==
  SinglePattern => IF qBackend = "sql" THEN SqlPatternCondition ELSE MatchPatternCondition

\* what each backend does translate: regex in the tabular, contains in the document server
C17_TranslatedByOneBackend ==
  /\ (SinglePattern /\ qBackend = "sql" /\ qReq.filters[1].operator = "regex") => SqlPatternCondition
  /\ (SinglePattern /\ qBackend = "mongo" /\ qReq.filters[1].operator = "contains") => MatchPatternCondition

\* C18: on the tabular path the aggregate expression of a count op whose field
\* is '*' is COUNT(*), and of a count op on any other field COUNT of that field.
C18_CountStarEmitted ==
  (qPc = "s_agg_db" /\ qReq.aggregation[qAggIdx].operator = "count") =>
    qQueries[Len(qQueries)].select =
      IF qReq.aggregation[qAggIdx].field = "*" THEN << <<"COUNT(*)">> >>
      ELSE << <<"COUNT", "(", qReq.aggregation[qAggIdx].collection \o "." \o qReq.aggregation[qAggIdx].field, ")">> >>

\* the entities a query joins to its root
JoinedEntities(q) ==
  IF qBackend = "sql" THEN {q.joins[n][3] : n \in DOMAIN q.joins}
  ELSE {q.pipeline[n].spec.from : n \in {m \in DOMAIN q.pipeline : q.pipeline[m].stage = "$lookup"}}

\* the entities of the request's aggregation ops
AggregatedEntities == {qReq.aggregation[i].collection : i \in DOMAIN qReq.aggregation}

\* C23: every query that computes an aggregate joins the entity of every
\* aggregation op that is not on the root, in both servers, also when no filter
\* refers to that entity.
C23_AggregationEntitiesJoined ==
  \A a \in DOMAIN qQueries :
    qQueries[a].kind \in AggregateKinds =>
      (AggregatedEntities \ {qQueries[a].from}) \subseteq JoinedEntities(qQueries[a])

\* the tabular server alone plans the joins of the aggregation entities
C23_TabularPlanJoinsEntities ==
  qBackend = "sql" =>
    \A a \in DOMAIN qQueries :
      qQueries[a].kind \in AggregateKinds =>
        (AggregatedEntities \ {qQueries[a].from}) \subseteq JoinedEntities(qQueries[a])

\* the message validateFilter throws for the first filter it rejects, <<>> when
\* it accepts them all
RECURSIVE FirstRejection(_, _)
FirstRejection(filters, i) ==
  IF i > Len(filters) THEN <<>>
  ELSE LET err == IF qBackend = "sql" THEN validateFilterSQL(filters[i])
                  ELSE validateFilterMongo(filters[i])
       IN IF err # <<>> THEN err ELSE FirstRejection(filters, i + 1)

\* C28: in both servers and both branches of /query, no database query is issued
\* for a request one of whose filters fails validateFilter.
C28_ValidationBeforeExecution ==
  FirstRejection(qReq.filters, 1) # <<>> => qQueries = <<>>

\* the tabular server and the regular branch of the document server validate first
C28_ValidatedBranchesIssueNothing ==
  (FirstRejection(qReq.filters, 1) # <<>> /\ (qBackend = "sql" \/ qReq.aggregation = <<>>)) =>
    qQueries = <<>>

\* the handler ran validateFilter on a filter it rejects and has answered
RejectedByValidateFilter ==
  /\ qReq.database
  /\ qPc = "done"
  /\ qDriverErrors = <<>>
  /\ qQueries = <<>>
  /\ qBackend = "mongo" => qReq.aggregation = <<>>
  /\ FirstRejection(qReq.filters, 1) # <<>>

\* C29: a request rejected by validateFilter is answered 400 with the validation
\* message, never 500, whichever of the four reasons: invalid collection, invalid
\* field name, invalid operator, object value.
C29_RejectionAnswered400 ==
  RejectedByValidateFilter =>
    /\ qResp.status = 400
    /\ qResp.error = FirstRejection(qReq.filters, 1)

\* the three rejections whose message starts with Invalid are answered 400
C29_InvalidMessagesAnswered400 ==
  (RejectedByValidateFilter /\ Includes(FirstRejection(qReq.filters, 1), "Invalid")) =>
    /\ qResp.status = 400
    /\ qResp.error = FirstRejection(qReq.filters, 1)

\* C30: for every filter list over the four whitelisted entities both servers
\* run their queries on the same root, and the root is invoices when invoices is
\* referenced, when more than one entity is referenced and when the list is empty.
C30_SameRootInBothServers ==
  CollectionsOf(qReq.filters) \subseteq AllowedEntities =>
    \A i \in DOMAIN qQueries :
      /\ qQueries[i].from = resolveRootSQL(qReq.filters)
      /\ qQueries[i].from = resolveRootMongo(qReq.filters)
      /\ ("invoices" \in CollectionsOf(qReq.filters) \/ Cardinality(CollectionsOf(qReq.filters)) # 1)
           => qQueries[i].from = "invoices"

\* the part both servers agree on: invoices when referenced, with several entities, with none
C30_InvoicesUnlessOneOtherEntity ==
  (CollectionsOf(qReq.filters) \subseteq AllowedEntities
     /\ ("invoices" \in CollectionsOf(qReq.filters) \/ Cardinality(CollectionsOf(qReq.filters)) # 1)) =>
    \A i \in DOMAIN qQueries :
      /\ qQueries[i].from = "invoices"
      /\ resolveRootSQL(qReq.filters) = "invoices"
      /\ resolveRootMongo(qReq.filters) = "invoices"

(***************************************************************************)
(* ResultEnhancer (enhanceResultsWithJoinedFields of the document server). *)
(* The function runs from one findOne to the next in one step.             *)
(***************************************************************************)
\* the value is truthy: if (v), a || b
Truthy(v) ==
  CASE v.t = "scalar" -> v.x # 0
    [] v.t = "str" -> v.s # <<>>
    [] v.t \in {"null", "undefined"} -> FALSE
    [] OTHER -> TRUE

\* a || b
OrElse(a, b) == IF Truthy(a) THEN a ELSE b

\* Object.entries(idFieldMappings)
idFieldMappings ==
  << [idField |-> "customer_id", collection |-> "customers"],
     [idField |-> "product_id",  collection |-> "products"],
     [idField |-> "category_id", collection |-> "categories"] >>

\* the outcome of a findOne that threw
Threw == [t |-> "throws"]

\* "if (doc) { ... }": the fields a found document adds to enhancedRecord
decorate(record, collection, doc) ==
  LET nameField == OrElse(PropOf(doc, "name"),
                     OrElse(PropOf(doc, "title"), OrElse(PropOf(doc, "label"), PropOf(doc, "_id"))))
      r1 == ObjSet(record, collection \o "_name", nameField)
      r2 == IF Truthy(PropOf(doc, "name")) THEN ObjSet(r1, collection \o "_name", PropOf(doc, "name")) ELSE r1
      r3 == IF Truthy(PropOf(doc, "region")) THEN ObjSet(r2, "customer_region", PropOf(doc, "region")) ELSE r2
  IN IF Truthy(PropOf(doc, "zone")) THEN ObjSet(r3, "customer_zone", PropOf(doc, "zone")) ELSE r3

\* the try / catch around findOne: a throw and a missing document leave the record as it is
afterLookup(record, collection, outcome) ==
  IF outcome = Threw THEN record
  ELSE IF Truthy(outcome) THEN decorate(record, collection, outcome)
  ELSE record

\* the next id field, from the k-th on, whose value in the record is truthy (0: none)
nextLookup(record, k) ==
  LET S == {j \in k..Len(idFieldMappings) : Truthy(PropOf(record, idFieldMappings[j].idField))}
  IN IF S = {} THEN 0 ELSE CHOOSE j \in S : \A m \in S : j <= m

\* variant that keeps only the rows a lookup decorated
pushDecorated(records, record) ==
  IF \E i \in DOMAIN idFieldMappings : ObjHas(record, idFieldMappings[i].collection \o "_name")
  THEN Append(records, record)
  ELSE records

\* enhancedRecords.push(enhancedRecord)
pushRecord(records, record) == Append(records, record)

\* the loops from (row, key) on, up to the next findOne or the return
RECURSIVE enhanceFrom(_, _, _, _, _)
enhanceFrom(data, row, key, record, records) ==
  LET Next(j, pushed) ==
        IF j # 0
        THEN [pc |-> "lookup", row |-> row, key |-> j, record |-> record, records |-> records,
              result |-> "none"]
        ELSE IF row = Len(data)
        THEN [pc |-> "done", row |-> row, key |-> 0, record |-> record, records |-> pushed,
              result |-> pushed]
        ELSE enhanceFrom(data, row + 1, 1, data[row + 1], pushed)
  IN Next(nextLookup(record, key), pushRecord(records, record))

\* enhanceResultsWithJoinedFields from its entry
enhanceStart(data) ==
  IF data = <<>>
  THEN [pc |-> "done", row |-> 0, key |-> 0, record |-> Obj(<<>>), records |-> <<>>, result |-> data]
  ELSE enhanceFrom(data, 1, 1, data[1], <<>>)

(***************************************************************************)
(* The enhancer applied to a family of row lists.                          *)
(***************************************************************************)
MaxRows == 2

\* the fields a row carries besides its _id
RowShapes ==
  { <<>>,
    <<Entry("customer_id", Scalar(7))>>,
    <<Entry("customers_name", Str(<<"old">>)), Entry("customer_id", Scalar(7)),
      Entry("product_id", Scalar(9))>>,
    <<Entry("customer_id", Null), Entry("category_id", Scalar(0))>> }

\* the i-th row has _id i
DataOf(shapes) == [i \in DOMAIN shapes |-> Obj(<<Entry("_id", Scalar(i))>> \o shapes[i])]

EnhancerInputs == {DataOf(sh) : sh \in SeqsUpTo(RowShapes, MaxRows)}

\* what findOne({_id: idValue}) may give: a throw, no document, a document
LookupOutcomes(idValue) ==
  { Threw, Null,
    Obj(<<Entry("_id", idValue), Entry("name", Str(<<"n">>)), Entry("region", Str(<<"r">>))>>),
    Obj(<<Entry("_id", idValue), Entry("title", Str(<<"t">>))>>) }

InitEnhanceVars ==
  /\ eData \in EnhancerInputs
  /\ ePc = "start"
  /\ eRow = 0 /\ eKey = 0
  /\ eRecord = Obj(<<>>) /\ eRecords = <<>>
  /\ eLookups = <<>>
  /\ eResult = "none"

IdleEnhance ==
  /\ eData = <<>>
  /\ ePc = "idle"
  /\ eRow = 0 /\ eKey = 0
  /\ eRecord = Obj(<<>>) /\ eRecords = <<>>
  /\ eLookups = <<>>
  /\ eResult = "none"

\* the enhancer's state after a synchronous stretch
EnhancerAt(o) ==
  /\ ePc' = o.pc
  /\ eRow' = o.row
  /\ eKey' = o.key
  /\ eRecord' = o.record
  /\ eRecords' = o.records
  /\ eResult' = o.result
  /\ UNCHANGED eData
  /\ UNCHANGED <<planVars, filterVars, coerceVars, queryVars, matchVars, connVars>>

E_Begin ==
  /\ ePc = "start"
  /\ \E o \in {enhanceStart(eData)} : EnhancerAt(o)
  /\ UNCHANGED eLookups

\* the awaited findOne returns or throws
E_Lookup(outcome) ==
  /\ ePc = "lookup"
  /\ eLookups' = Append(eLookups, [row |-> eRow, idField |-> idFieldMappings[eKey].idField,
                                    outcome |-> outcome])
  /\ \E o \in {enhanceFrom(eData, eRow, eKey + 1,
                           afterLookup(eRecord, idFieldMappings[eKey].collection, outcome),
                           eRecords)} :
       EnhancerAt(o)

\* the outcomes of the findOne the enhancer is suspended at
AwaitedOutcomes ==
  IF ePc = "lookup" THEN LookupOutcomes(PropOf(eRecord, idFieldMappings[eKey].idField)) ELSE {}

\* the fields the enhancer may write
DecorationFields ==
  {idFieldMappings[i].collection \o "_name" : i \in DOMAIN idFieldMappings}
  \cup {"customer_region", "customer_zone"}

\* out carries the identity and the key fields of the input row
DerivedFrom(out, in) ==
  /\ out.t = "obj"
  /\ \A i \in DOMAIN in.e :
       in.e[i].k \notin DecorationFields => PropOf(out, in.e[i].k) = in.e[i].v

\* C13: whatever the lookups gave (a record, no record, a throw), the enhancer
\* returns as many rows as it was given and the i-th is derived from the i-th.
C13_EnhancerKeepsEveryRow ==
  ePc = "done" =>
    /\ Len(eResult) = Len(eData)
    /\ \A i \in DOMAIN eData : DerivedFrom(eResult[i], eData[i])

C13_Witness ==
  /\ ePc = "done"
  /\ Len(eData) = 2
  /\ Len(eResult) = 2
  /\ \E i \in DOMAIN eLookups : eLookups[i].outcome = Threw
  /\ \E i \in DOMAIN eLookups : eLookups[i].outcome = Null
  /\ \E i \in DOMAIN eLookups : eLookups[i].row = 2 /\ Truthy(eLookups[i].outcome)

\* C22: every field a row had when it came in has the same value in the
\* corresponding returned row, fields named customers_name, customer_region and
\* customer_zone included; the enhancer only adds fields.
C22_ExistingFieldsUntouched ==
  ePc = "done" =>
    /\ Len(eResult) = Len(eData)
    /\ \A i \in DOMAIN eData : \A n \in DOMAIN eData[i].e :
         PropOf(eResult[i], eData[i].e[n].k) = eData[i].e[n].v

\* the fields outside the names the enhancer writes are never changed or removed
C22_OtherFieldsUntouched ==
  ePc = "done" =>
    \A i \in DOMAIN eData : \A n \in DOMAIN eData[i].e :
      eData[i].e[n].k \notin DecorationFields =>
        PropOf(eResult[i], eData[i].e[n].k) = eData[i].e[n].v

(***************************************************************************)
(* buildMatch applied to a family of filter lists, and the documents its   *)
(* result is read against.                                                 *)
(***************************************************************************)
MaxMatchFilters == 2

\* the filters as buildMatch receives them: {field, operator, value}
MatchFilters ==
  {[field |-> "a", operator |-> op, value |-> Scalar(n)] : op \in {"eq", "gt", "gte", "lte"}, n \in 1..2}
  \cup {[field |-> "a", operator |-> "between",
         value |-> Obj(<<Entry("from", Scalar(1)), Entry("to", Scalar(2))>>)]}
  \cup {[field |-> "a", operator |-> op, value |-> Str(<<c>>)] :
          op \in {"contains", "startsWith", "endsWith", "regex"}, c \in {"x", "y"}}
  \cup {[field |-> "b", operator |-> "eq", value |-> Scalar(1)]}

NoMatch == [error |-> <<>>, match |-> Obj(<<>>)]

InitMatchVars ==
  /\ mIn \in SeqsUpTo(MatchFilters, MaxMatchFilters)
  /\ mDone = FALSE
  /\ mOut = NoMatch

IdleMatch ==
  /\ mIn = <<>>
  /\ mDone = FALSE
  /\ mOut = NoMatch

BuildMatch ==
  /\ ~mDone
  /\ mDone' = TRUE
  /\ mOut' = buildMatch(mIn)
  /\ UNCHANGED mIn
  /\ UNCHANGED <<planVars, filterVars, coerceVars, queryVars, enhanceVars, connVars>>

\* the documents a match is read against: fields a and b
Documents ==
  {Obj(<<Entry("a", va), Entry("b", vb)>>) :
     va \in {Scalar(n) : n \in 0..3} \cup {Str(<<"x">>), Str(<<"y">>), Str(<<"x", "y">>), Str(<<"y", "x">>)},
     vb \in {Scalar(1), Scalar(2)}}

IsPrefix(p, t) == Len(p) <= Len(t) /\ SubSeq(t, 1, Len(p)) = p

IsSuffix(p, t) == Len(p) <= Len(t) /\ SubSeq(t, Len(t) - Len(p) + 1, Len(t)) = p

IsInfix(p, t) == \E i \in 0..(Len(t) - Len(p)) : SubSeq(t, i + 1, i + Len(p)) = p

\* a pattern of plain characters with an optional leading ^ or trailing $
RegexMatches(pattern, text) ==
  IF pattern # <<>> /\ Head(pattern) = "^" THEN IsPrefix(Tail(pattern), text)
  ELSE IF pattern # <<>> /\ pattern[Len(pattern)] = "$"
  THEN IsSuffix(SubSeq(pattern, 1, Len(pattern) - 1), text)
  ELSE IsInfix(pattern, text)

\* one operator expression of a condition holds of a field value
OperatorHolds(key, operand, dv) ==
  CASE key = "$eq" -> dv = operand
    [] key = "$ne" -> dv # operand
    [] key = "$gt" -> dv.t = "scalar" /\ operand.t = "scalar" /\ dv.x > operand.x
    [] key = "$gte" -> dv.t = "scalar" /\ operand.t = "scalar" /\ dv.x >= operand.x
    [] key = "$lt" -> dv.t = "scalar" /\ operand.t = "scalar" /\ dv.x < operand.x
    [] key = "$lte" -> dv.t = "scalar" /\ operand.t = "scalar" /\ dv.x <= operand.x
    [] key = "$regex" -> dv.t = "str" /\ operand.t = "str" /\ RegexMatches(operand.s, dv.s)
    [] key = "$options" -> TRUE
    [] OTHER -> FALSE

\* a condition {$op: operand, ...} holds when each of its operator expressions does
ConditionHolds(cond, dv) ==
  \A n \in DOMAIN cond.e : OperatorHolds(cond.e[n].k, cond.e[n].v, dv)

\* a match {field: condition, ...} holds when each field's condition does
MatchHolds(match, doc) ==
  \A n \in DOMAIN match.e : ConditionHolds(match.e[n].v, PropOf(doc, match.e[n].k))

\* the condition of one filter, as its operator builds it, holds of the document
FilterHolds(f, doc) ==
  LET c == applyOperator(f.operator, f.value) IN
  c.error = <<>> /\ ConditionHolds(c.cond, PropOf(doc, f.field))

\* C24: a document satisfies the match buildMatch returns exactly when it
\* satisfies the condition of every filter of the list, several filters on one
\* field included; no condition is overwritten by a later one.
C24_MatchIsConjunction ==
  (mDone /\ mOut.error = <<>>) =>
    \A doc \in Documents :
      MatchHolds(mOut.match, doc) <=> \A i \in DOMAIN mIn : FilterHolds(mIn[i], doc)

\* two filters of the list write the same operator key of the same field
SharedKey ==
  \E i \in DOMAIN mIn : \E j \in DOMAIN mIn :
    /\ i < j
    /\ mIn[i].field = mIn[j].field
    /\ \E n \in DOMAIN applyOperator(mIn[i].operator, mIn[i].value).cond.e :
         \E m \in DOMAIN applyOperator(mIn[j].operator, mIn[j].value).cond.e :
           applyOperator(mIn[i].operator, mIn[i].value).cond.e[n].k
             = applyOperator(mIn[j].operator, mIn[j].value).cond.e[m].k

\* the conjunction is kept as long as no two filters share a field and an operator key
C24_DistinctKeysConjoined ==
  (mDone /\ mOut.error = <<>> /\ ~SharedKey) =>
    \A doc \in Documents :
      MatchHolds(mOut.match, doc) <=> \A i \in DOMAIN mIn : FilterHolds(mIn[i], doc)

(***************************************************************************)
(* getDB under concurrent and repeated calls.  A call runs from its entry  *)
(* to the await of connect(), or to its return, in one step.               *)
(***************************************************************************)
MaxCalls == 4

DbNames == {"d1", "d2"}

\* variant whose test finds no client at every call
clientMissingAlways(cl) == TRUE

\* if (!client)
clientMissing(cl) == cl = 0

\* new MongoClient(MONGO_URI, ...) with connect() called on it and not yet settled
NewClient == [state |-> "pending", connects |-> 1]

\* "let client;" at module load, no call made
InitConnVars ==
  /\ gClient = 0
  /\ gClients = <<>>
  /\ gCalls = <<>>

IdleConn ==
  /\ gClient = 0
  /\ gClients = <<>>
  /\ gCalls = <<>>

\* a getDB call had thrown before now
FailedBefore == \E c \in DOMAIN gCalls : gCalls[c].pc = "threw"

\* getDB(dbName) from its entry: with no client it creates one, stores it and
\* awaits connect(); with a client it returns client.db(dbName) at once
G_Call(dbName) ==
  /\ Len(gCalls) < MaxCalls
  /\ IF clientMissing(gClient)
     THEN /\ gClients' = Append(gClients, NewClient)
          /\ gClient' = Len(gClients) + 1
          /\ gCalls' = Append(gCalls,
               [db |-> dbName, pc |-> "connecting", client |-> Len(gClients) + 1,
                attempted |-> TRUE, handleState |-> "none", afterFailure |-> FailedBefore])
     ELSE /\ UNCHANGED <<gClient, gClients>>
          /\ gCalls' = Append(gCalls,
               [db |-> dbName, pc |-> "returned", client |-> gClient,
                attempted |-> FALSE, handleState |-> gClients[gClient].state,
                afterFailure |-> FailedBefore])
  /\ UNCHANGED <<planVars, filterVars, coerceVars, queryVars, enhanceVars, matchVars>>

\* the awaited connect() of call c resolved: return client.db(dbName)
G_Connected(c) ==
  /\ gCalls[c].pc = "connecting"
  /\ gClients' = [gClients EXCEPT ![gCalls[c].client].state = "connected"]
  /\ gCalls' = [gCalls EXCEPT ![c].pc = "returned", ![c].client = gClient,
                              ![c].handleState = gClients'[gClient].state]
  /\ UNCHANGED gClient
  /\ UNCHANGED <<planVars, filterVars, coerceVars, queryVars, enhanceVars, matchVars>>

\* the awaited connect() of call c rejected: the catch block throws
\* "Failed to connect to MongoDB: ..."; client keeps its value
G_ConnectFailed(c) ==
  /\ gCalls[c].pc = "connecting"
  /\ gClients' = [gClients EXCEPT ![gCalls[c].client].state = "failed"]
  /\ gCalls' = [gCalls EXCEPT ![c].pc = "threw"]
  /\ UNCHANGED gClient
  /\ UNCHANGED <<planVars, filterVars, coerceVars, queryVars, enhanceVars, matchVars>>

\* C25: under any interleaving of getDB calls, a call that returns a handle
\* returns it on a client whose connect() has completed successfully.
C25_HandleOnlyAfterConnect ==
  \A c \in DOMAIN gCalls : gCalls[c].pc = "returned" => gCalls[c].handleState = "connected"

\* the call that awaited connect() itself returns only after it resolved
C25_ConnectingCallWaits ==
  \A c \in DOMAIN gCalls :
    (gCalls[c].pc = "returned" /\ gCalls[c].attempted) => gCalls[c].handleState = "connected"

\* C26: across any number of concurrent and sequential getDB calls at most one
\* MongoClient is created, and connect() is invoked at most once on it.
C26_OneClientOneConnect ==
  /\ Len(gClients) <= 1
  /\ \A i \in DOMAIN gClients : gClients[i].connects <= 1

\* a call made while connect() was pending, and one made after it had resolved
C26_Witness ==
  /\ Len(gCalls) >= 3
  /\ Len(gClients) = 1
  /\ gClients[1].connects = 1
  /\ gCalls[1].pc = "returned" /\ gCalls[1].attempted
  /\ gCalls[2].pc = "returned" /\ gCalls[2].handleState = "pending"
  /\ gCalls[3].pc = "returned" /\ gCalls[3].handleState = "connected"

\* C27: a getDB call made after a call failed on connect() attempts to connect
\* again, and returns no handle on the client whose connect() failed.
C27_FailureDoesNotPoison ==
  \A c \in DOMAIN gCalls :
    gCalls[c].afterFailure =>
      /\ gCalls[c].attempted
      /\ gCalls[c].pc = "returned" => gClients[gCalls[c].client].state # "failed"

(***************************************************************************)
(* Specifications.                                                         *)
(***************************************************************************)
InitPlan == InitPlanVars /\ IdleFilter /\ IdleCoerce /\ IdleQuery /\ IdleEnhance /\ IdleMatch /\ IdleConn

NextPlan ==
  \/ BuildSQL
  \/ BuildMongo
  \/ \E i \in DOMAIN refs : FindPath(i)

SpecPlan == InitPlan /\ [][NextPlan]_vars

InitFilter == IdlePlan /\ InitFilterVars /\ IdleCoerce /\ IdleQuery /\ IdleEnhance /\ IdleMatch /\ IdleConn

NextFilter == BuildFilter

SpecFilter == InitFilter /\ [][NextFilter]_vars

InitCoerce == IdlePlan /\ IdleFilter /\ InitCoerceVars /\ IdleQuery /\ IdleEnhance /\ IdleMatch /\ IdleConn

NextCoerce == \E op \in ComparisonOps : Coerce(op)

SpecCoerce == InitCoerce /\ [][NextCoerce]_vars

InitQuery == IdlePlan /\ IdleFilter /\ IdleCoerce /\ InitQueryVars /\ IdleEnhance /\ IdleMatch /\ IdleConn

NextQuery ==
  \/ S_Begin
  \/ \E outcome \in DriverOutcomes : S_RegularDb(outcome)
  \/ \E outcome \in DriverOutcomes : S_DetailedDb(outcome)
  \/ \E outcome \in DriverOutcomes : S_AggMainDb(outcome)
  \/ \E outcome \in DriverOutcomes : S_AggDb(outcome)
  \/ M_Begin
  \/ \E outcome \in DriverOutcomes : M_GetDB(outcome)
  \/ \E outcome \in DriverOutcomes : M_DetailedDb(outcome)
  \/ \E outcome \in DriverOutcomes : M_AggDb(outcome)
  \/ \E outcome \in DriverOutcomes : M_RegularDb(outcome)
  \/ M_Enhance

SpecQuery == InitQuery /\ [][NextQuery]_vars

InitEnhance == IdlePlan /\ IdleFilter /\ IdleCoerce /\ IdleQuery /\ InitEnhanceVars /\ IdleMatch /\ IdleConn

NextEnhance ==
  \/ E_Begin
  \/ \E outcome \in AwaitedOutcomes : E_Lookup(outcome)

SpecEnhance == InitEnhance /\ [][NextEnhance]_vars

InitMatch == IdlePlan /\ IdleFilter /\ IdleCoerce /\ IdleQuery /\ IdleEnhance /\ InitMatchVars /\ IdleConn

NextMatch == BuildMatch

SpecMatch == InitMatch /\ [][NextMatch]_vars

InitConn == IdlePlan /\ IdleFilter /\ IdleCoerce /\ IdleQuery /\ IdleEnhance /\ IdleMatch /\ InitConnVars

NextConn ==
  \/ \E dbName \in DbNames : G_Call(dbName)
  \/ \E c \in DOMAIN gCalls : G_Connected(c)
  \/ \E c \in DOMAIN gCalls : G_ConnectFailed(c)

SpecConn == InitConn /\ [][NextConn]_vars

=============================================================================
